---------------------------- MODULE Spec2Model ----------------------------
(***************************************************************************)
(* A model of the 6fs object store: the allocation bitmap (Map), the       *)
(* ChunkManager, the Base handle cache, the per-inode Handle with its slot *)
(* trees, and the path operations of SixFS.                                *)
(*                                                                         *)
(* Every C++ method is an operator on a "world" record w that is threaded  *)
(* through the calls.  The fields of w are the objects' fields:            *)
(*   w.map[sp]  the Map of object space sp (inode, dirent, block)          *)
(*   w.dat[sp]  the data Storage of space sp, a sequence of chunks         *)
(*   w.cis[sp]  ChunkManager::_chunksInStorage of space sp                 *)
(*   w.hm       the Handle objects by inode index; key -1 is the Handle    *)
(*              that SixFS::recursiveFind builds on its stack              *)
(*   w.max      Base::_maxSize (0: no limit)                               *)
(*   w.freedInUse  set when an inode is removed from the inode space       *)
(*              while its Handle has a positive reference count            *)
(*   w.em       the process-global emergencyType                           *)
(*   w.now      the clock read by Time::now()                              *)
(*   w.io       the storage fault cursor: the calls made so far in the     *)
(*              running operation and the ordinals of those that fail      *)
(*   w.r, w.out the return code and the out-parameters of the last call    *)
(* Return codes are the errno names; "OK" is 0.                            *)
(***************************************************************************)
EXTENDS Integers, Sequences, FiniteSets, TLC

VARIABLES w, ret, pc, held, ghost

vars == <<w, ret, pc, held, ghost>>

-----------------------------------------------------------------------------
(* Program constants, scaled down so that chunk switches and indirection   *)
(* blocks occur with a handful of objects.                                 *)

\* InvalidIndex is the largest uint64_t: it compares above every count.
InvalidIndex == 1000000
\* bits per bitmap chunk (64 in the program)
BitsPerChunk == 2
\* sizeof(Block) (4096 in the program)
BlockSize == 2
\* indirection slots per block (sizeof(Block) / 8 = 512 in the program)
N == 2
maxSlotCount == 1 + N + N * N + N * N * N + N * N * N * N

Spaces == {"inode", "dirent", "block"}

-----------------------------------------------------------------------------
(* Helpers                                                                 *)

Min(S) == CHOOSE x \in S : \A y \in S : x <= y
Max(S) == CHOOSE x \in S : \A y \in S : x >= y

\* a storage of len chunks keeping the old content, new chunks are zero
Resize(seq, len, zero) == [i \in 1..len |-> IF i <= Len(seq) THEN seq[i] ELSE zero]

Ok(x) == x.r = "OK"

\* the next storage call fails
Faulty(x) == (x.io.n + 1) \in x.io.bad
Tick(x) == [x EXCEPT !.io.n = @ + 1]

SetR(x, code) == [x EXCEPT !.r = code]

\* The world left by a call is computed once and then handed on: Once(S) is
\* the element of the one-element set S.
Once(S) == CHOOSE y \in S : TRUE
\* "if (r < 0) return r;" between two calls: F runs on the world x left by
\* a call that succeeded
Bind(x, F(_)) == Once({IF Ok(v) THEN F(v) ELSE v : v \in {x}})
\* "if (r < 0) { ... }": F runs on the world left by a call that failed
OnError(x, F(_)) == Once({IF Ok(v) THEN v ELSE F(v) : v \in {x}})
\* a failed call is followed by F, and the call's error is what is returned
Rescue(x, F(_)) == Once({IF Ok(v) THEN v ELSE SetR(F(v), v.r) : v \in {x}})
\* F runs on the world left by a call, whatever the call returned
Then(x, F(_)) == Once({F(v) : v \in {x}})

-----------------------------------------------------------------------------
(* emergency.cpp                                                           *)

emergency(x, t) == IF x.em = "None" THEN [x EXCEPT !.em = t] ELSE x

-----------------------------------------------------------------------------
(* Storage calls on the bitmap container of space sp (chunks are sets of   *)
(* bit positions 0..BitsPerChunk-1; the zero chunk is {}).                 *)

MapStorSetSize(x, sp, len) ==
    IF Faulty(x) THEN SetR(Tick(x), "EIO")
    ELSE [Tick(x) EXCEPT !.map[sp].stor = Resize(@, len, {}), !.r = "OK"]

\* reads chunk idx into _currentBitChunk
MapStorRead(x, sp, idx) ==
    IF Faulty(x) \/ idx >= Len(x.map[sp].stor) THEN SetR(Tick(x), "EIO")
    ELSE [Tick(x) EXCEPT !.map[sp].cur = x.map[sp].stor[idx + 1], !.r = "OK"]

MapStorWrite(x, sp, idx, chunk) ==
    IF Faulty(x) THEN SetR(Tick(x), "EIO")
    ELSE [Tick(x) EXCEPT
            !.map[sp].stor = [Resize(@, Max({Len(@), idx + 1}), {}) EXCEPT ![idx + 1] = chunk],
            !.r = "OK"]

-----------------------------------------------------------------------------
(* map.cpp                                                                 *)

toBitChunkIndex(index) == index \div BitsPerChunk
toBitIndex(index) == index % BitsPerChunk

FullChunk == 0..(BitsPerChunk - 1)

\* the state of a Map after Map::initialize on an empty container
MapInitial == [stor |-> <<{}>>, n |-> 1, cur |-> {}, curIdx |-> 0,
               mod |-> FALSE, cand |-> 0]

\* the loop of Map::sync that walks down over the preceding chunks
RECURSIVE MapSyncWalk(_, _)
MapSyncWalk(x, sp) ==
    IF x.map[sp].curIdx > 1
    THEN Bind(MapStorRead([x EXCEPT !.map[sp].curIdx = @ - 1], sp, x.map[sp].curIdx - 1),
              LAMBDA x2 : IF x2.map[sp].cur # {} THEN x2 ELSE MapSyncWalk(x2, sp))
    ELSE SetR(x, "OK")

MapSync(x, sp) ==
    IF x.map[sp].curIdx >= x.map[sp].n
    THEN SetR(emergency(x, "Bug"), "ENOTRECOVERABLE")
    ELSE Bind(IF x.map[sp].cur = {} /\ x.map[sp].curIdx + 1 = x.map[sp].n
              THEN Bind(MapSyncWalk([x EXCEPT !.map[sp].n = @ - 1], sp),
                        LAMBDA a : MapStorSetSize(a, sp, a.map[sp].n))
              ELSE IF x.map[sp].mod
                   THEN MapStorWrite(x, sp, x.map[sp].curIdx, x.map[sp].cur)
                   ELSE SetR(x, "OK"),
              LAMBDA x1 : [x1 EXCEPT !.map[sp].mod = FALSE])

MapSetCurrentBitChunkIndex(x, sp, bitChunkIndex) ==
    IF bitChunkIndex = x.map[sp].curIdx THEN SetR(x, "OK")
    ELSE Bind(Bind(MapSync(x, sp),
                   LAMBDA x1 : IF bitChunkIndex >= x1.map[sp].n
                               THEN MapStorSetSize(
                                        [x1 EXCEPT !.map[sp].cur = {},
                                                   !.map[sp].n = bitChunkIndex + 1],
                                        sp, bitChunkIndex + 1)
                               ELSE MapStorRead(x1, sp, bitChunkIndex)),
              LAMBDA x2 : [x2 EXCEPT !.map[sp].curIdx = bitChunkIndex])

RECURSIVE MapFirstZeroScan(_, _, _)
MapFirstZeroScan(x, sp, bitChunkIndex) ==
    Bind(MapSetCurrentBitChunkIndex(x, sp, bitChunkIndex),
         LAMBDA x1 :
            IF x1.map[sp].cur # FullChunk
            THEN [x1 EXCEPT
                    !.map[sp].cand = bitChunkIndex * BitsPerChunk + Min(FullChunk \ x1.map[sp].cur),
                    !.out = bitChunkIndex * BitsPerChunk + Min(FullChunk \ x1.map[sp].cur)]
            ELSE MapFirstZeroScan(x1, sp, bitChunkIndex + 1))

MapFirstZero(x, sp) == MapFirstZeroScan(x, sp, toBitChunkIndex(x.map[sp].cand))

\* the value Map::set leaves in _currentBitChunkModified
MapSetModified(previousBitChunk, currentBitChunk, wasModified) ==
    previousBitChunk # currentBitChunk

\* Map::set from the mask on, on the resident chunk m
MapSetBit(m, index, b) ==
    LET chunk == IF b THEN m.cur \cup {toBitIndex(index)}
                      ELSE m.cur \ {toBitIndex(index)}
    IN [m EXCEPT !.cur = chunk,
                 !.cand = IF b THEN (IF index = m.cand THEN m.cand + 1 ELSE m.cand)
                               ELSE (IF index < m.cand THEN index ELSE m.cand),
                 !.mod = MapSetModified(m.cur, chunk, m.mod)]

MapSet(x, sp, index, b) ==
    Bind(MapSetCurrentBitChunkIndex(x, sp, toBitChunkIndex(index)),
         LAMBDA x1 : [x1 EXCEPT !.map[sp] = MapSetBit(@, index, b)])

MapSetZero(x, sp, index) == MapSet(x, sp, index, FALSE)
MapSetOne(x, sp, index) == MapSet(x, sp, index, TRUE)

MapGet(x, sp, index) ==
    Bind(MapSetCurrentBitChunkIndex(x, sp, toBitChunkIndex(index)),
         LAMBDA x1 : [x1 EXCEPT !.out = (toBitIndex(index) \in x1.map[sp].cur)])

\* The bit of index i as the Map holds it: in the resident chunk if that is
\* the chunk of i, otherwise in the container (chunks beyond its end are zero).
MapBit(m, i) ==
    LET c == toBitChunkIndex(i) IN
    IF c = m.curIdx THEN toBitIndex(i) \in m.cur
    ELSE IF c < Len(m.stor) THEN toBitIndex(i) \in m.stor[c + 1]
    ELSE FALSE


-----------------------------------------------------------------------------
(* Storage calls on the data container of space sp.  A chunk that was      *)
(* never written reads as zero bytes: ZeroChunk(sp) is that record.        *)

ZeroInode == [type |-> "NONE", suid |-> FALSE, mode |-> 0, nlink |-> 0, size |-> 0,
              slotTrees |-> <<0, 0, 0, 0, 0>>,
              atime |-> 0, ctime |-> 0, mtime |-> 0]
ZeroDirent == [name |-> 0, inodeIndex |-> 0]
ZeroBlock == [i \in 1..BlockSize |-> 0]

ZeroChunk(sp) ==
    IF sp = "inode" THEN ZeroInode
    ELSE IF sp = "dirent" THEN ZeroDirent
    ELSE ZeroBlock

DatSetSize(x, sp, len) ==
    IF Faulty(x) THEN SetR(Tick(x), "EIO")
    ELSE [Tick(x) EXCEPT !.dat[sp] = Resize(@, len, ZeroChunk(sp)), !.r = "OK"]

DatRead(x, sp, idx) ==
    IF Faulty(x) \/ idx >= Len(x.dat[sp]) THEN SetR(Tick(x), "EIO")
    ELSE [Tick(x) EXCEPT !.out = x.dat[sp][idx + 1], !.r = "OK"]

DatWrite(x, sp, idx, buf) ==
    IF Faulty(x) THEN SetR(Tick(x), "EIO")
    ELSE [Tick(x) EXCEPT
            !.dat[sp] = [Resize(@, Max({Len(@), idx + 1}), ZeroChunk(sp)) EXCEPT ![idx + 1] = buf],
            !.r = "OK"]

-----------------------------------------------------------------------------
(* chunk.cpp: the bodies of the ChunkManager methods, run while the        *)
(* method holds _rwMutex.                                                  *)

\* ChunkManager::add, the search of the free index (line 72)
cmAddIndex(x, sp) == MapFirstZero(x, sp)

\* ChunkManager::add from the marking of the index on (lines 73-99)
cmAddStore(x, sp, index, buf) ==
    [Bind(Bind(MapSetOne(x, sp, index),
               LAMBDA x0 :
                  IF index >= x0.cis[sp]
                  THEN Rescue(DatSetSize([x0 EXCEPT !.cis[sp] = index + 1], sp, index + 1),
                              LAMBDA a : MapSetZero(a, sp, index))
                  ELSE x0),
          LAMBDA x1 :
             Rescue(DatWrite(x1, sp, index, buf),
                    LAMBDA b :
                       Bind(MapSetZero(b, sp, index),
                            LAMBDA c :
                               IF index + 1 = c.cis[sp]
                               THEN DatSetSize([c EXCEPT !.cis[sp] = @ - 1], sp,
                                               c.cis[sp] - 1)
                               ELSE c)))
     EXCEPT !.out = index]

cmAdd(x, sp, buf) ==
    Bind(cmAddIndex(x, sp), LAMBDA x1 : cmAddStore(x1, sp, x1.out, buf))

\* the loop of ChunkManager::remove over the preceding empty chunks
RECURSIVE cmRemoveWalk(_, _, _)
\* a remove that drops the removed chunk only
cmRemoveWalkNone(x, sp, index) == SetR(x, "OK")
cmRemoveWalk(x, sp, index) ==
    IF index > 0
    THEN Bind(OnError(MapGet(x, sp, index - 1),
                      LAMBDA e : SetR(emergency(e, "SystemFailure"), "ENOTRECOVERABLE")),
              LAMBDA x1 :
                 IF x1.out THEN SetR(x1, "OK")
                 ELSE cmRemoveWalk([x1 EXCEPT !.cis[sp] = @ - 1], sp, index - 1))
    ELSE SetR(x, "OK")

PunchHoles == FALSE

cmRemove(x, sp, index) ==
    IF index >= x.cis[sp]
    THEN SetR(emergency(x, "Bug"), "ENOTRECOVERABLE")
    ELSE Bind(MapSetZero(x, sp, index),
              LAMBDA x1 :
                 IF index + 1 = x1.cis[sp]
                 THEN Bind(cmRemoveWalk([x1 EXCEPT !.cis[sp] = @ - 1], sp, index),
                           LAMBDA x2 :
                              OnError(DatSetSize(x2, sp, x2.cis[sp]),
                                      LAMBDA e : SetR(emergency(e, "SystemFailure"),
                                                      "ENOTRECOVERABLE")))
                 ELSE IF PunchHoles /\ sp = "block"
                      THEN SetR(DatWrite(x1, sp, index, ZeroChunk(sp)), "OK")
                      ELSE x1)

cmRead(x, sp, index) ==
    IF index >= x.cis[sp]
    THEN SetR(emergency(x, "Bug"), "ENOTRECOVERABLE")
    ELSE DatRead(x, sp, index)

cmWrite(x, sp, index, buf) ==
    IF index >= x.cis[sp]
    THEN SetR(emergency(x, "Bug"), "ENOTRECOVERABLE")
    ELSE DatWrite(x, sp, index, buf)

cmSync(x, sp) == MapSync(x, sp)

\* sizes in the model's units: a record of the inode and dirent containers
\* and a bitmap chunk count as one unit, a block as BlockSize units
chunkSize(sp) == IF sp = "block" THEN BlockSize ELSE 1

cmStorageSizeInBytes(x, sp) == x.cis[sp] * chunkSize(sp) + x.map[sp].n

-----------------------------------------------------------------------------
(* inode.cpp, block.hpp: the records.  A name is a number, and names       *)
(* compare as strcmp compares the strings.  A block is BlockSize cells; a  *)
(* cell holds a data byte or a slot index (N = BlockSize in the model).    *)

Time_now(x) == x.now

\* Inode::Inode()
InodeDefault == [type |-> "NONE", suid |-> FALSE, mode |-> 0, nlink |-> 0, size |-> 0,
                 slotTrees |-> <<InvalidIndex, InvalidIndex, InvalidIndex,
                                 InvalidIndex, InvalidIndex>>,
                 atime |-> 0, ctime |-> 0, mtime |-> 0]

InodeEmpty(t) == [InodeDefault EXCEPT !.atime = t, !.ctime = t, !.mtime = t, !.nlink = 1]

InodeDirectory(t, mode) == [InodeEmpty(t) EXCEPT !.type = "DIR", !.mode = mode, !.nlink = 2]

InodeNode(t, mode) == [InodeEmpty(t) EXCEPT !.type = "REG", !.mode = mode]

InodeSymlink(t, targetLen, blockIndex) ==
    [InodeEmpty(t) EXCEPT !.type = "LNK", !.size = targetLen, !.slotTrees[1] = blockIndex]

\* Block::initializeIndices, Block::initializeData
BlockIndices == [i \in 1..N |-> InvalidIndex]
BlockData == [i \in 1..BlockSize |-> 0]

\* ::slotCount(inode)
slotCount(inode) ==
    IF inode.type = "REG"
    THEN inode.size \div BlockSize + (IF inode.size % BlockSize # 0 THEN 1 ELSE 0)
    ELSE IF inode.type = "DIR" THEN inode.size
    ELSE 0

\* the most inodes that exist at a time
MaxInodes == 4

HandleKeys == -1..(MaxInodes - 1)

NoHandle == [live |-> FALSE, inode |-> InodeDefault, slotCount |-> 0,
             readOnly |-> FALSE, append |-> FALSE, refCount |-> 0,
             removeOnceUnused |-> FALSE,
             cbi |-> <<InvalidIndex, InvalidIndex, InvalidIndex, InvalidIndex>>,
             cb |-> <<ZeroBlock, ZeroBlock, ZeroBlock, ZeroBlock>>]

\* Handle::Handle(base, inodeIndex, inode)
NewHandle(inode) == [NoHandle EXCEPT !.live = TRUE, !.inode = inode,
                                     !.slotCount = slotCount(inode)]

-----------------------------------------------------------------------------
(* base.cpp: the entity calls (no encryption) and the handle cache         *)

storageSizeInBytes(x) ==
    cmStorageSizeInBytes(x, "inode") + cmStorageSizeInBytes(x, "dirent")
        + cmStorageSizeInBytes(x, "block")

checkWriteAction(x, additionalBytes) ==
    IF x.em # "None" THEN "EROFS"
    ELSE IF x.max > 0 /\ additionalBytes > 0
            /\ storageSizeInBytes(x) + additionalBytes + 4 * BlockSize > x.max
         THEN "ENOSPC"
    ELSE "OK"

entityAddRaw(x, sp, buf) ==
    IF checkWriteAction(x, chunkSize(sp)) = "OK"
    THEN cmAdd(x, sp, buf)
    ELSE SetR(x, checkWriteAction(x, chunkSize(sp)))

entityRemove(x, sp, index) ==
    IF checkWriteAction(x, 0) = "OK"
    THEN cmRemove(x, sp, index)
    ELSE SetR(x, checkWriteAction(x, 0))

entityReadRaw(x, sp, index) == cmRead(x, sp, index)

entityWriteRaw(x, sp, index, buf) == cmWrite(x, sp, index, buf)

inodeAdd(x, inode) == entityAddRaw(x, "inode", inode)
inodeRead(x, index) == entityReadRaw(x, "inode", index)
inodeWrite(x, index, inode) == entityWriteRaw(x, "inode", index, inode)
\* notes whether the Handle of the inode is referenced when the inode goes
inodeRemove(x, index) ==
    entityRemove([x EXCEPT !.freedInUse = @ \/ x.hm[index].refCount > 0], "inode", index)

direntAdd(x, dirent) == entityAddRaw(x, "dirent", dirent)
direntRead(x, index) == entityReadRaw(x, "dirent", index)
direntWrite(x, index, dirent) == entityWriteRaw(x, "dirent", index, dirent)
direntRemove(x, index) == entityRemove(x, "dirent", index)

blockAdd(x, block) == entityAddRaw(x, "block", block)
blockRead(x, index) == entityReadRaw(x, "block", index)
blockWrite(x, index, block) == entityWriteRaw(x, "block", index, block)
blockRemove(x, index) == entityRemove(x, "block", index)

\* Base::createRootNode
createRootNode(x) == inodeAdd(x, InodeDirectory(Time_now(x), 0))

-----------------------------------------------------------------------------
(* handle.cpp: the slot trees.  The Handle is x.hm[k]; tree levels and     *)
(* slots count from 0 as in the program.                                   *)

slotToTreeIndices(slot) ==
    IF slot = 0
    THEN [tree |-> 0, ijkl |-> <<InvalidIndex, InvalidIndex, InvalidIndex, InvalidIndex>>]
    ELSE IF slot - 1 < N
    THEN [tree |-> 1, ijkl |-> <<slot - 1, InvalidIndex, InvalidIndex, InvalidIndex>>]
    ELSE IF slot - 1 - N < N * N
    THEN [tree |-> 2,
          ijkl |-> <<(slot - 1 - N) \div N, (slot - 1 - N) % N, InvalidIndex, InvalidIndex>>]
    ELSE IF slot - 1 - N - N * N < N * N * N
    THEN LET s == slot - 1 - N - N * N IN
         [tree |-> 3,
          ijkl |-> <<s \div (N * N), (s % (N * N)) \div N, s % N, InvalidIndex>>]
    ELSE LET s == slot - 1 - N - N * N - N * N * N IN
         [tree |-> 4,
          ijkl |-> <<s \div (N * N * N), (s % (N * N * N)) \div (N * N),
                     (s % (N * N)) \div N, s % N>>]

cacheBlock(x, k, treeLevel, blockIndex) ==
    IF x.hm[k].cbi[treeLevel + 1] # blockIndex
    THEN Then(blockRead(x, blockIndex),
              LAMBDA y :
                 IF Ok(y)
                 THEN [y EXCEPT !.hm[k].cb[treeLevel + 1] = y.out,
                                !.hm[k].cbi[treeLevel + 1] = blockIndex]
                 ELSE [y EXCEPT !.hm[k].cbi[treeLevel + 1] = InvalidIndex])
    ELSE SetR(x, "OK")

\* _cachedBlocks[l].indices[ijkl[l]]
cachedIndex(x, k, ijkl, l) == x.hm[k].cb[l + 1][ijkl[l + 1] + 1]

\* the loop of Handle::getSlot over the tree levels
RECURSIVE getSlotWalk(_, _, _, _, _, _)
getSlotWalk(x, k, tree, ijkl, l, blockIndex) ==
    IF blockIndex = InvalidIndex
    THEN [x EXCEPT !.out = InvalidIndex, !.r = "OK"]
    ELSE Bind(cacheBlock(x, k, l, blockIndex),
              LAMBDA y :
                 IF l = tree - 1
                 THEN [y EXCEPT !.out = cachedIndex(y, k, ijkl, l)]
                 ELSE getSlotWalk(y, k, tree, ijkl, l + 1, cachedIndex(y, k, ijkl, l)))

getSlot(x, k, slot) ==
    IF slot >= x.hm[k].slotCount
    THEN SetR(emergency(x, "Bug"), "ENOTRECOVERABLE")
    ELSE IF slotToTreeIndices(slot).tree = 0
    THEN [x EXCEPT !.out = x.hm[k].inode.slotTrees[1], !.r = "OK"]
    ELSE getSlotWalk(x, k, slotToTreeIndices(slot).tree, slotToTreeIndices(slot).ijkl, 0,
                     x.hm[k].inode.slotTrees[slotToTreeIndices(slot).tree + 1])

\* no block is ever found empty
allEntriesInvalidNever(block) == FALSE

allEntriesInvalid(block) == \A j \in 1..N : block[j] = InvalidIndex

\* Handle::setSlot, a missing indirection block of level l is added
setSlotAdd(x, k, tree, ijkl, l) ==
    Then(blockAdd([x EXCEPT !.hm[k].cb[l + 1] = BlockIndices], BlockIndices),
         LAMBDA y :
            IF ~Ok(y) THEN [y EXCEPT !.hm[k].cbi[l + 1] = InvalidIndex]
            ELSE IF l > 0
            THEN [blockWrite([y EXCEPT !.hm[k].cbi[l + 1] = y.out,
                                       !.hm[k].cb[l][ijkl[l] + 1] = y.out],
                             y.hm[k].cbi[l],
                             [y.hm[k].cb[l] EXCEPT ![ijkl[l] + 1] = y.out])
                  EXCEPT !.out = y.out]
            ELSE [y EXCEPT !.hm[k].cbi[l + 1] = y.out,
                           !.hm[k].inode.slotTrees[tree + 1] = y.out])

\* Handle::setSlot, the indirection blocks that hold no index any more go
RECURSIVE setSlotPrune(_, _, _, _, _)
setSlotPrune(x, k, tree, ijkl, ll) ==
    Bind(blockRemove(x, x.hm[k].cbi[ll + 1]),
         LAMBDA y :
            IF ll > 0
            THEN IF allEntriesInvalid([y.hm[k].cb[ll] EXCEPT ![ijkl[ll] + 1] = InvalidIndex])
                 THEN setSlotPrune([y EXCEPT !.hm[k].cbi[ll + 1] = InvalidIndex,
                                             !.hm[k].cb[ll][ijkl[ll] + 1] = InvalidIndex],
                                   k, tree, ijkl, ll - 1)
                 ELSE blockWrite([y EXCEPT !.hm[k].cbi[ll + 1] = InvalidIndex,
                                           !.hm[k].cb[ll][ijkl[ll] + 1] = InvalidIndex],
                                 y.hm[k].cbi[ll],
                                 [y.hm[k].cb[ll] EXCEPT ![ijkl[ll] + 1] = InvalidIndex])
            ELSE [y EXCEPT !.hm[k].cbi[ll + 1] = InvalidIndex,
                           !.hm[k].inode.slotTrees[tree + 1] = InvalidIndex])

\* Handle::setSlot at the last tree level l: the index is stored
setSlotStore(x, k, tree, ijkl, l, index) ==
    IF index = InvalidIndex
       /\ allEntriesInvalid([x.hm[k].cb[l + 1] EXCEPT ![ijkl[l + 1] + 1] = index])
    THEN setSlotPrune([x EXCEPT !.hm[k].cb[l + 1][ijkl[l + 1] + 1] = index],
                      k, tree, ijkl, l)
    ELSE OnError(blockWrite([x EXCEPT !.hm[k].cb[l + 1][ijkl[l + 1] + 1] = index],
                            x.hm[k].cbi[l + 1],
                            [x.hm[k].cb[l + 1] EXCEPT ![ijkl[l + 1] + 1] = index]),
                 LAMBDA e : [e EXCEPT !.hm[k].cb[l + 1][ijkl[l + 1] + 1] =
                                          cachedIndex(x, k, ijkl, l)])

\* the loop of Handle::setSlot over the tree levels
RECURSIVE setSlotWalk(_, _, _, _, _, _, _)
setSlotWalk(x, k, tree, ijkl, index, l, blockIndex) ==
    Bind(IF blockIndex = InvalidIndex
         THEN setSlotAdd(x, k, tree, ijkl, l)
         ELSE [x EXCEPT !.out = blockIndex, !.r = "OK"],
         LAMBDA y :
            Bind(cacheBlock(y, k, l, y.out),
                 LAMBDA z :
                    IF l = tree - 1
                    THEN setSlotStore(z, k, tree, ijkl, l, index)
                    ELSE setSlotWalk(z, k, tree, ijkl, index, l + 1,
                                     cachedIndex(z, k, ijkl, l))))

setSlot(x, k, slot, index) ==
    IF slot >= x.hm[k].slotCount
    THEN SetR(emergency(x, "Bug"), "ENOTRECOVERABLE")
    ELSE IF slotToTreeIndices(slot).tree = 0
    THEN [x EXCEPT !.hm[k].inode.slotTrees[1] = index, !.r = "OK"]
    ELSE setSlotWalk(x, k, slotToTreeIndices(slot).tree, slotToTreeIndices(slot).ijkl,
                     index, 0, x.hm[k].inode.slotTrees[slotToTreeIndices(slot).tree + 1])

\* the loop of Handle::insertSlot that moves the slots above slot up by one
RECURSIVE insertSlotShift(_, _, _, _)
insertSlotShift(x, k, slot, i) ==
    IF i > slot
    THEN Bind(getSlot(x, k, i - 1),
              LAMBDA y : Bind(setSlot(y, k, i, y.out),
                              LAMBDA z : insertSlotShift(z, k, slot, i - 1)))
    ELSE SetR(x, "OK")

insertSlot(x, k, slot, index) ==
    IF slot >= x.hm[k].slotCount + 1
    THEN SetR(emergency(x, "Bug"), "ENOTRECOVERABLE")
    ELSE IF x.hm[k].slotCount = maxSlotCount THEN SetR(x, "ENOSPC")
    ELSE Bind(insertSlotShift([x EXCEPT !.hm[k].slotCount = @ + 1], k, slot,
                              x.hm[k].slotCount),
              LAMBDA y : setSlot(y, k, slot, index))

\* the loop of Handle::removeSlot that moves the slots above slot down by one
RECURSIVE removeSlotShift(_, _, _)
\* a removal that leaves the following slots where they are
removeSlotShiftNone(x, k, i) == SetR(x, "OK")

removeSlotShift(x, k, i) ==
    IF i < x.hm[k].slotCount - 1
    THEN Bind(getSlot(x, k, i + 1),
              LAMBDA y : Bind(setSlot(y, k, i, y.out),
                              LAMBDA z : removeSlotShift(z, k, i + 1)))
    ELSE SetR(x, "OK")

\* Handle::removeSlot, the dirent or block that was in the slot is removed
removeSlotEntity(x, k, index) ==
    IF x.hm[k].inode.type = "DIR" THEN direntRemove(x, index)
    ELSE IF x.hm[k].inode.type = "REG" THEN blockRemove(x, index)
    ELSE SetR(x, "EINVAL")

removeSlot(x, k, slot, removeDirentOrBlock) ==
    IF slot >= x.hm[k].slotCount
    THEN SetR(emergency(x, "Bug"), "ENOTRECOVERABLE")
    ELSE Bind(IF removeDirentOrBlock THEN getSlot(x, k, slot)
              ELSE [x EXCEPT !.out = InvalidIndex, !.r = "OK"],
              LAMBDA y :
                 Bind(Bind(Bind(removeSlotShift(y, k, slot),
                                LAMBDA z : setSlot(z, k, z.hm[k].slotCount - 1, InvalidIndex)),
                           LAMBDA u :
                              IF removeDirentOrBlock /\ y.out # InvalidIndex
                              THEN removeSlotEntity(u, k, y.out)
                              ELSE u),
                      LAMBDA v : [v EXCEPT !.hm[k].slotCount = @ - 1]))

-----------------------------------------------------------------------------
(* handle.cpp: the methods of a Handle                                     *)

\* a day of the clock
Day == 2

\* Handle::updateATime: whether the access time is to be renewed
updateATime(x, k) ==
    \/ x.hm[k].inode.atime < x.hm[k].inode.ctime
    \/ x.hm[k].inode.atime < x.hm[k].inode.mtime
    \/ x.hm[k].inode.atime < Time_now(x) - Day

\* the binary search of Handle::findDirentNow between slots a and b
RECURSIVE findDirentSearch(_, _, _, _, _)
findDirentSearch(x, k, name, a, b) ==
    IF b >= a
    THEN Bind(getSlot(x, k, (a + b) \div 2),
              LAMBDA y :
                 Bind(direntRead(y, y.out),
                      LAMBDA z :
                         IF name > z.out.name
                         THEN findDirentSearch(z, k, name, (a + b) \div 2 + 1, b)
                         ELSE IF name < z.out.name
                         THEN findDirentSearch(z, k, name, a, (a + b) \div 2 - 1)
                         ELSE [z EXCEPT !.out = [slot |-> (a + b) \div 2,
                                                 index |-> y.out,
                                                 dirent |-> z.out]]))
    ELSE [x EXCEPT !.r = "ENOENT",
                   !.out = [slot |-> a, index |-> InvalidIndex, dirent |-> ZeroDirent]]

findDirentNow(x, k, name) == findDirentSearch(x, k, name, 0, x.hm[k].slotCount - 1)

findDirent(x, k, name) == findDirentNow(x, k, name)

\* the two loops of Handle::truncateNow that bring the slot count to newBlockCount
RECURSIVE truncateSlots(_, _, _)
truncateSlots(x, k, newBlockCount) ==
    IF newBlockCount < x.hm[k].slotCount
    THEN Bind(removeSlot(x, k, x.hm[k].slotCount - 1, TRUE),
              LAMBDA y : truncateSlots(y, k, newBlockCount))
    ELSE IF newBlockCount > x.hm[k].slotCount
    THEN Bind(insertSlot(x, k, x.hm[k].slotCount, InvalidIndex),
              LAMBDA y : truncateSlots(y, k, newBlockCount))
    ELSE SetR(x, "OK")

\* memset(block.data + from, 0, sizeof(Block) - from)
zeroFrom(block, from) == [i \in 1..BlockSize |-> IF i > from THEN 0 ELSE block[i]]

\* Handle::truncateNow, the last block of the old content is filled with zeroes
truncateZeroes(x, k, lastOrigBlockSlot) ==
    Bind(getSlot(x, k, lastOrigBlockSlot),
         LAMBDA y :
            IF y.out # InvalidIndex
            THEN Bind(blockRead(y, y.out),
                      LAMBDA z : blockWrite(z, y.out,
                                            zeroFrom(z.out, z.hm[k].inode.size % BlockSize)))
            ELSE y)

truncateNow(x, k, length) ==
    IF length # x.hm[k].inode.size
    THEN Bind(Bind(truncateSlots(x, k, length \div BlockSize
                                          + (IF length % BlockSize # 0 THEN 1 ELSE 0)),
                   LAMBDA y :
                      IF length > y.hm[k].inode.size /\ x.hm[k].inode.size % BlockSize # 0
                      THEN truncateZeroes(y, k, x.hm[k].slotCount - 1)
                      ELSE y),
              LAMBDA z : [z EXCEPT !.hm[k].inode.size = length])
    ELSE SetR(x, "OK")

\* Handle::link
Hlink(x, k) ==
    IF x.hm[k].inode.type # "REG" THEN SetR(x, "EINVAL")
    ELSE OnError(inodeWrite([x EXCEPT !.hm[k].inode.nlink = @ + 1,
                                      !.hm[k].inode.ctime = Time_now(x)],
                            k,
                            [x.hm[k].inode EXCEPT !.nlink = @ + 1, !.ctime = Time_now(x)]),
                 LAMBDA e : [e EXCEPT !.hm[k].inode = x.hm[k].inode])

\* Handle::removeNow, the indirection blocks that were cached for a slot go
RECURSIVE removeNowLevels(_, _, _, _)
removeNowLevels(x, k, l, last) ==
    IF l < 4
    THEN IF x.hm[k].cbi[l + 1] # last[l + 1]
         THEN Bind(IF x.hm[k].cbi[l + 1] # InvalidIndex
                   THEN blockRemove(x, x.hm[k].cbi[l + 1])
                   ELSE SetR(x, "OK"),
                   LAMBDA y : removeNowLevels(y, k, l + 1,
                                              [last EXCEPT ![l + 1] = y.hm[k].cbi[l + 1]]))
         ELSE removeNowLevels(x, k, l + 1, last)
    ELSE [x EXCEPT !.out = last, !.r = "OK"]

\* the loop of Handle::removeNow over the slots of a regular file
RECURSIVE removeNowSlots(_, _, _, _)
removeNowSlots(x, k, slot, last) ==
    IF slot < x.hm[k].slotCount
    THEN Bind(Bind(Bind(getSlot(x, k, slot),
                        LAMBDA y : IF y.out # InvalidIndex THEN blockRemove(y, y.out) ELSE y),
                   LAMBDA z : removeNowLevels(z, k, 0, last)),
              LAMBDA u : removeNowSlots(u, k, slot + 1, u.out))
    ELSE SetR(x, "OK")

removeNow(x, k) ==
    IF x.hm[k].inode.type = "REG"
    THEN IF x.hm[k].inode.nlink = 0
         THEN SetR(emergency(x, "Bug"), "ENOTRECOVERABLE")
         ELSE IF x.hm[k].inode.nlink - 1 = 0
         THEN Bind(inodeRemove([x EXCEPT !.hm[k].inode.nlink = 0], k),
                   LAMBDA y : removeNowSlots(y, k, 0,
                                  <<InvalidIndex, InvalidIndex, InvalidIndex, InvalidIndex>>))
         ELSE inodeWrite([x EXCEPT !.hm[k].inode.nlink = @ - 1,
                                   !.hm[k].inode.ctime = Time_now(x)],
                         k,
                         [x.hm[k].inode EXCEPT !.nlink = @ - 1, !.ctime = Time_now(x)])
    ELSE IF x.hm[k].inode.type = "LNK"
    THEN Bind(inodeRemove(x, k), LAMBDA y : blockRemove(y, y.hm[k].inode.slotTrees[1]))
    ELSE inodeRemove(x, k)

\* Handle::remove: whether the removal waits for the last reference to go
removeNever(refCount) == FALSE
removeWaits(refCount) == ~(refCount <= 0)

\* a removal that does nothing
HremoveNothing(x, k) == SetR(x, "OK")

\* Handle::remove
Hremove(x, k) ==
    IF removeWaits(x.hm[k].refCount)
    THEN [x EXCEPT !.hm[k].removeOnceUnused = TRUE, !.r = "OK"]
    ELSE removeNow(x, k)

-----------------------------------------------------------------------------
(* base.cpp: the handle cache                                              *)

handleGet(x, inodeIndex) ==
    IF x.hm[inodeIndex].live
    THEN [x EXCEPT !.hm[inodeIndex].refCount = @ + 1, !.out = inodeIndex, !.r = "OK"]
    ELSE Then(inodeRead(x, inodeIndex),
              LAMBDA y :
                 IF Ok(y)
                 THEN [y EXCEPT !.hm[inodeIndex] = [NewHandle(y.out) EXCEPT !.refCount = 1],
                                !.out = inodeIndex]
                 ELSE [y EXCEPT !.out = InvalidIndex])

\* Base::handleRelease: whether the handle is dead after the decrement
handleDead(refCount) == refCount = 0

\* Base::handleRelease; the Handle is out of _handleMap (not live) while it
\* removes itself, and is deleted afterwards
handleRelease(x, k) ==
    IF handleDead(x.hm[k].refCount - 1)
    THEN Then(IF x.hm[k].removeOnceUnused
              THEN Hremove([x EXCEPT !.hm[k].refCount = @ - 1, !.hm[k].live = FALSE], k)
              ELSE SetR(x, "OK"),
              LAMBDA y : [y EXCEPT !.hm[k] = NoHandle])
    ELSE [x EXCEPT !.hm[k].refCount = @ - 1, !.r = "OK"]

-----------------------------------------------------------------------------
(* handle.cpp: directory entries, attributes and file content              *)

\* Handle::mkdirent from the search of the name to the new dirent in its slot;
\* newInode is what the inodeCreator returns
mkdirentInsert(x, k, name, existingInodeIndex, newInode) ==
    Bind(Then(findDirentNow(x, k, name),
              LAMBDA f : IF Ok(f) THEN SetR(f, "EEXIST")
                         ELSE IF f.r = "ENOENT" THEN SetR(f, "OK")
                         ELSE f),
         LAMBDA x1 :
            Bind(Bind(IF existingInodeIndex = InvalidIndex
                      THEN inodeAdd(x1, newInode)
                      ELSE [x1 EXCEPT !.out = existingInodeIndex],
                      LAMBDA x2 : direntAdd(x2, [name |-> name, inodeIndex |-> x2.out])),
                 LAMBDA x3 : insertSlot(x3, k, x1.out.slot, x3.out)))

mkdirent(x, k, name, existingInodeIndex, newInode) ==
    IF x.hm[k].inode.type # "DIR" THEN SetR(x, "ENOTDIR")
    ELSE IF x.hm[k].slotCount = maxSlotCount THEN SetR(x, "ENOSPC")
    ELSE Bind(mkdirentInsert(x, k, name, existingInodeIndex, newInode),
              LAMBDA y :
                 inodeWrite([y EXCEPT !.hm[k].inode.size = @ + 1,
                                      !.hm[k].inode.mtime = Time_now(y),
                                      !.hm[k].inode.ctime = Time_now(y),
                                      !.hm[k].inode.nlink = @ + 1],
                            k,
                            [y.hm[k].inode EXCEPT !.size = @ + 1,
                                                  !.mtime = Time_now(y),
                                                  !.ctime = Time_now(y),
                                                  !.nlink = @ + 1]))

\* the inodeChecker of SixFS::rmdir and of SixFS::unlink
inodeChecker(op, inode) ==
    IF op = "rmdir"
    THEN IF inode.type # "DIR" THEN "ENOTDIR"
         ELSE IF inode.size > 0 THEN "ENOTEMPTY"
         ELSE "OK"
    ELSE IF inode.type = "DIR" THEN "EISDIR"
         ELSE "OK"

\* Handle::rmdirent from the handle of the entry's inode (child) on; the
\* result of handleRelease replaces the result of the steps before it
rmdirentEntry(x, k, child, direntSlot, op) ==
    Then(Bind(Bind(SetR(x, inodeChecker(op, x.hm[child].inode)),
                   LAMBDA x3 : removeSlot(x3, k, direntSlot, TRUE)),
              LAMBDA x4 : Hremove(x4, child)),
         LAMBDA x5 : handleRelease(x5, child))

rmdirent(x, k, name, op) ==
    IF x.hm[k].inode.type # "DIR" THEN SetR(x, "ENOTDIR")
    ELSE IF x.hm[k].inode.nlink = 2 THEN SetR(x, "ENOENT")
    ELSE Bind(Bind(findDirentNow(x, k, name),
                   LAMBDA x1 :
                      Bind(handleGet(x1, x1.out.dirent.inodeIndex),
                           LAMBDA x2 : rmdirentEntry(x2, k, x1.out.dirent.inodeIndex,
                                                     x1.out.slot, op))),
              LAMBDA y :
                 inodeWrite([y EXCEPT !.hm[k].inode.size = @ - 1,
                                      !.hm[k].inode.mtime = Time_now(y),
                                      !.hm[k].inode.ctime = Time_now(y),
                                      !.hm[k].inode.nlink = @ - 1],
                            k,
                            [y.hm[k].inode EXCEPT !.size = @ - 1,
                                                  !.mtime = Time_now(y),
                                                  !.ctime = Time_now(y),
                                                  !.nlink = @ - 1]))

\* "_inode = oldInode" after an inodeWrite that failed
inodeWriteOrRestore(x, k, inode) ==
    OnError(inodeWrite([x EXCEPT !.hm[k].inode = inode], k, inode),
            LAMBDA e : [e EXCEPT !.hm[k].inode = x.hm[k].inode])

\* the set-user-ID bit of a mode; the bits below it are the permissions
ModeSUID == 2

\* Handle::chmod
Hchmod(x, k, mode) ==
    inodeWriteOrRestore(x, k, [x.hm[k].inode EXCEPT !.mode = mode % ModeSUID,
                                                    !.suid = mode >= ModeSUID,
                                                    !.ctime = Time_now(x)])

\* Handle::chown (the owner is not in the model's inode)
Hchown(x, k) ==
    inodeWriteOrRestore(x, k, [x.hm[k].inode EXCEPT !.suid = FALSE, !.ctime = Time_now(x)])

\* Handle::utimens
Hutimens(x, k, updateAtime, atime, updateMtime, mtime, updateCtime, ctime) ==
    IF ~updateAtime /\ ~updateMtime /\ ~updateCtime THEN SetR(x, "OK")
    ELSE inodeWriteOrRestore(x, k,
            [x.hm[k].inode EXCEPT !.atime = IF updateAtime THEN atime ELSE @,
                                  !.mtime = IF updateMtime THEN mtime ELSE @,
                                  !.ctime = IF updateCtime THEN ctime ELSE @])

\* Handle::truncate
Htruncate(x, k, length) ==
    Bind(truncateNow(x, k, length),
         LAMBDA y :
            inodeWrite([y EXCEPT !.hm[k].inode.suid = FALSE,
                                 !.hm[k].inode.mtime = Time_now(y),
                                 !.hm[k].inode.ctime = Time_now(y)],
                       k,
                       [y.hm[k].inode EXCEPT !.suid = FALSE,
                                             !.mtime = Time_now(y),
                                             !.ctime = Time_now(y)]))

\* Handle::open after the truncation: the times are set and the inode written
openTouch(x, k, readOnly) ==
    IF readOnly
    THEN IF updateATime(x, k)
         THEN inodeWrite([x EXCEPT !.hm[k].inode.atime = Time_now(x)], k,
                         [x.hm[k].inode EXCEPT !.atime = Time_now(x)])
         ELSE SetR(x, "OK")
    ELSE inodeWrite([x EXCEPT !.hm[k].inode.mtime = Time_now(x),
                              !.hm[k].inode.ctime = Time_now(x),
                              !.hm[k].inode.suid = FALSE],
                    k,
                    [x.hm[k].inode EXCEPT !.mtime = Time_now(x),
                                          !.ctime = Time_now(x),
                                          !.suid = FALSE])

\* Handle::open; the assignments "readOnly = readOnly; append = append;"
\* leave _readOnly and _append as they are
Hopen(x, k, readOnly, trunc, append) ==
    IF x.hm[k].inode.type # "REG" THEN SetR(x, "EINVAL")
    ELSE Bind(IF trunc /\ x.hm[k].inode.size # 0 THEN truncateNow(x, k, 0)
              ELSE SetR(x, "OK"),
              LAMBDA y : openTouch(y, k, readOnly))

\* Handle::openDir
HopenDir(x, k) ==
    IF x.hm[k].inode.type # "DIR" THEN SetR(x, "ENOTDIR")
    ELSE IF updateATime(x, k)
    THEN inodeWriteOrRestore(x, k, [x.hm[k].inode EXCEPT !.atime = Time_now(x)])
    ELSE SetR(x, "OK")

\* std::min(count, sizeof(block) - blockOffset)
copyLen(offset, count) == Min({count, BlockSize - (offset % BlockSize)})

\* the loop of Handle::read; acc is what has been copied to buf
RECURSIVE readLoop(_, _, _, _, _)
readLoop(x, k, offset, count, acc) ==
    IF count > 0
    THEN Bind(Bind(getSlot(x, k, offset \div BlockSize),
                   LAMBDA y : IF y.out = InvalidIndex
                              THEN [y EXCEPT !.out = BlockData]
                              ELSE blockRead(y, y.out)),
              LAMBDA z :
                 readLoop(z, k, offset + copyLen(offset, count),
                          count - copyLen(offset, count),
                          acc \o SubSeq(z.out, (offset % BlockSize) + 1,
                                        (offset % BlockSize) + copyLen(offset, count))))
    ELSE [x EXCEPT !.out = acc, !.r = "OK"]

\* Handle::read; the bytes read are in out
Hread(x, k, offset, count) ==
    readLoop(x, k, offset,
             IF offset >= x.hm[k].inode.size THEN 0
             ELSE IF offset + count > x.hm[k].inode.size THEN x.hm[k].inode.size - offset
             ELSE count,
             <<>>)

\* memcpy(block.data + blockOffset, buf, len)
copyInto(block, blockOffset, buf, len) ==
    [i \in 1..BlockSize |->
        IF i > blockOffset /\ i <= blockOffset + len THEN buf[i - blockOffset] ELSE block[i]]

\* Handle::write, one round of the loop: the block of blockSlot gets its bytes
writeBlock(x, k, blockSlot, blockOffset, buf, len) ==
    Bind(IF blockSlot < x.hm[k].slotCount THEN getSlot(x, k, blockSlot)
         ELSE [x EXCEPT !.out = InvalidIndex, !.r = "OK"],
         LAMBDA y :
            IF y.out = InvalidIndex
            THEN Bind(blockAdd(y, copyInto(BlockData, blockOffset, buf, len)),
                      LAMBDA z : IF blockSlot = z.hm[k].slotCount
                                 THEN insertSlot(z, k, blockSlot, z.out)
                                 ELSE setSlot(z, k, blockSlot, z.out))
            ELSE Bind(IF ~(blockOffset = 0 /\ len = BlockSize) THEN blockRead(y, y.out)
                      ELSE [y EXCEPT !.out = BlockData],
                      LAMBDA z : blockWrite(z, y.out, copyInto(z.out, blockOffset, buf, len))))

\* the loop of Handle::write
RECURSIVE writeLoop(_, _, _, _)
writeLoop(x, k, offset, buf) ==
    IF Len(buf) > 0
    THEN IF offset \div BlockSize >= maxSlotCount THEN SetR(x, "ENOSPC")
         ELSE IF offset \div BlockSize > x.hm[k].slotCount
         THEN SetR(emergency(x, "Bug"), "ENOTRECOVERABLE")
         ELSE Bind(writeBlock(x, k, offset \div BlockSize, offset % BlockSize, buf,
                              copyLen(offset, Len(buf))),
                   LAMBDA y :
                      writeLoop([y EXCEPT !.hm[k].inode.size =
                                    Max({@, offset + copyLen(offset, Len(buf))})],
                                k,
                                offset + copyLen(offset, Len(buf)),
                                SubSeq(buf, copyLen(offset, Len(buf)) + 1,
                                       Len(buf))))
    ELSE SetR(x, "OK")

\* Handle::write, the end: the inode is written if it changed, and the
\* result of that write is the result
writeInode(x, k, origInode) ==
    IF x.hm[k].inode # origInode THEN inodeWrite(x, k, x.hm[k].inode) ELSE x

\* Handle::write up to the end of the loop: the file grows to the offset and
\* the blocks get their bytes; r is the r of the code when the loop is left
writeData(x, k, offset, buf) ==
    Bind(IF (IF x.hm[k].append THEN x.hm[k].inode.size ELSE offset) > x.hm[k].inode.size
         THEN truncateNow(x, k, IF x.hm[k].append THEN x.hm[k].inode.size ELSE offset)
         ELSE SetR(x, "OK"),
         LAMBDA y : writeLoop(y, k, IF x.hm[k].append THEN x.hm[k].inode.size ELSE offset,
                              buf))

\* Handle::write; the count of bytes is in out
Hwrite(x, k, offset, buf) ==
    [Then(writeData(x, k, offset, buf), LAMBDA z : writeInode(z, k, x.hm[k].inode))
     EXCEPT !.out = Len(buf)]

renameHelperAdd(x, k, direntSlot, direntIndex) ==
    Bind(insertSlot(x, k, direntSlot, direntIndex),
         LAMBDA y : inodeWrite([y EXCEPT !.hm[k].inode.size = @ + 1], k,
                               [y.hm[k].inode EXCEPT !.size = @ + 1]))

renameHelperRemove(x, k, direntSlot) ==
    Bind(removeSlot(x, k, direntSlot, FALSE),
         LAMBDA y : inodeWrite([y EXCEPT !.hm[k].inode.size = @ - 1], k,
                               [y.hm[k].inode EXCEPT !.size = @ - 1]))

renameHelperReplace(x, k, direntSlot, newDirentIndex) ==
    Bind(setSlot(x, k, direntSlot, newDirentIndex),
         LAMBDA y : inodeWrite(y, k, y.hm[k].inode))

-----------------------------------------------------------------------------
(* sixfs.cpp.  A path is the sequence of its names; <<>> is "/".           *)

Front(path) == SubSeq(path, 1, Len(path) - 1)
Last(path) == path[Len(path)]

\* the key of the Handle that recursiveFind builds on its stack
StackHandle == -1

RECURSIVE recursiveFind(_, _)
recursiveFind(x, path) ==
    IF path = <<>>
    THEN [x EXCEPT !.out = 0, !.r = "OK"]
    ELSE Then(Bind(recursiveFind(x, Front(path)),
                   LAMBDA y :
                      Bind(inodeRead(y, y.out),
                           LAMBDA z :
                              IF z.out.type # "DIR" THEN SetR(z, "ENOTDIR")
                              ELSE Bind(findDirentNow(
                                            [z EXCEPT !.hm[StackHandle] = NewHandle(z.out)],
                                            StackHandle, Last(path)),
                                        LAMBDA f : [f EXCEPT !.out = f.out.dirent.inodeIndex]))),
              LAMBDA u : [u EXCEPT !.hm[StackHandle] = NoHandle,
                                   !.out = IF Ok(u) THEN u.out ELSE InvalidIndex])

findInode(x, path) == recursiveFind(x, path)

getHandle(x, path) == Bind(findInode(x, path), LAMBDA y : handleGet(y, y.out))

releaseHandle(x, handle) == handleRelease(x, handle)

\* "int r2 = releaseHandle(h); if (r == 0 && r2 < 0) r = r2;" after the
\* call that left the world v
releaseAfter(v, handle) ==
    Then(v, LAMBDA u :
               Then(releaseHandle(u, handle),
                    LAMBDA z : IF Ok(u) /\ ~Ok(z) THEN z ELSE SetR(z, u.r)))

\* SixFS::mkdirent
SixFSmkdirent(x, path, existingInodeIndex, newInode) ==
    Bind(getHandle(x, Front(path)),
         LAMBDA y : releaseAfter(mkdirent(y, y.out, Last(path), existingInodeIndex, newInode),
                                 y.out))

\* SixFS::rmdirent
SixFSrmdirent(x, path, op) ==
    Bind(getHandle(x, Front(path)),
         LAMBDA y : releaseAfter(rmdirent(y, y.out, Last(path), op), y.out))

mkdir(x, path, mode) == SixFSmkdirent(x, path, InvalidIndex, InodeDirectory(Time_now(x), mode))

rmdir(x, path) == SixFSrmdirent(x, path, "rmdir")

mknod(x, path, mode) == SixFSmkdirent(x, path, InvalidIndex, InodeNode(Time_now(x), mode))

unlink(x, path) == SixFSrmdirent(x, path, "unlink")

\* Block::initializeTarget and the memcpy of the target
BlockTarget(target) == [i \in 1..BlockSize |-> IF i <= Len(target) THEN target[i] ELSE 0]

symlink(x, target, linkpath) ==
    IF Len(target) > BlockSize THEN SetR(x, "ENAMETOOLONG")
    ELSE Bind(blockAdd(x, BlockTarget(target)),
              LAMBDA y :
                 Rescue(SixFSmkdirent(y, linkpath, InvalidIndex,
                                      InodeSymlink(Time_now(y), Len(target), y.out)),
                        LAMBDA e : blockRemove(e, y.out)))

\* SixFS::link
link(x, oldpath, newpath) ==
    Bind(getHandle(x, oldpath),
         LAMBDA y :
            releaseAfter(
               Bind(Hlink(y, y.out),
                    LAMBDA z :
                       OnError(SixFSmkdirent(z, newpath, y.out, InodeDefault),
                               LAMBDA e :
                                  Then(Hremove(e, y.out),
                                       LAMBDA u :
                                          IF Ok(u) THEN SetR(u, e.r)
                                          ELSE SetR(emergency(u, "SystemFailure"),
                                                    "ENOTRECOVERABLE")))),
               y.out))

\* SixFS::rename, from the inside out.  o and n are the handles of the old
\* and the new parent directory (the same handle when the directories are the
\* same); old and new are what findDirent returned for the two names.

SetOut(x, v) == [x EXCEPT !.out = v]

\* the type and mode checks, in the order of the code
renameCheck(newPathExists, oldInode, newInode, mode) ==
    IF newPathExists /\ oldInode.type = "DIR" /\ newInode.type # "DIR" THEN "ENOTDIR"
    ELSE IF newPathExists /\ oldInode.type = "DIR" /\ newInode.type # "DIR"
            /\ newInode.size > 0 THEN "ENOTEMPTY"
    ELSE IF newPathExists /\ oldInode.type # "DIR" /\ newInode.type = "DIR" THEN "EISDIR"
    ELSE IF newPathExists /\ mode = "Noreplace" THEN "EEXIST"
    ELSE IF ~newPathExists /\ mode = "Exchange" THEN "ENOENT"
    ELSE "OK"

\* the replaced entry and its inode are dropped; failures are only logged
renameDropNew(x, new) ==
    Then(direntRemove(x, new.index),
         LAMBDA a :
            Then(handleGet(a, new.dirent.inodeIndex),
                 LAMBDA g :
                    IF Ok(g)
                    THEN Then(Hremove(g, new.dirent.inodeIndex),
                              LAMBDA h : SetR(releaseHandle(h, new.dirent.inodeIndex),
                                              "OK"))
                    ELSE SetR(g, "OK")))

renameMoveSlots(x, o, n, old, new, newPathExists) ==
    IF newPathExists
    THEN Bind(renameHelperReplace(x, n, new.slot, old.index),
              LAMBDA a : Bind(renameDropNew(a, new),
                              LAMBDA b : renameHelperRemove(b, o, old.slot)))
    ELSE Bind(renameHelperAdd(x, n, new.slot, old.index),
              LAMBDA a : renameHelperRemove(a, o,
                            IF o = n /\ old.slot >= new.slot
                            THEN old.slot + 1 ELSE old.slot))

\* case RenameNoreplace, RenameNormal
renameMove(x, o, n, old, new, newPathExists, oldName, newName) ==
    Bind(direntWrite(x, old.index, [old.dirent EXCEPT !.name = newName]),
         LAMBDA a :
            OnError(renameMoveSlots(a, o, n, old, new, newPathExists),
                    LAMBDA e :
                       Then(direntWrite(e, old.index, [old.dirent EXCEPT !.name = oldName]),
                            LAMBDA u :
                               IF Ok(u) THEN SetR(u, e.r)
                               ELSE SetR(emergency(u, "SystemFailure"),
                                         "ENOTRECOVERABLE"))))

\* case RenameExchange
renameExchange(x, o, n, old, new) ==
    Bind(renameHelperReplace(x, o, old.slot, new.index),
         LAMBDA a :
            OnError(renameHelperReplace(a, n, new.slot, old.index),
                    LAMBDA e :
                       Then(renameHelperReplace(e, o, old.slot, old.index),
                            LAMBDA u :
                               IF Ok(u) THEN SetR(u, e.r)
                               ELSE SetR(emergency(u, "SystemFailure"),
                                         "ENOTRECOVERABLE"))))

sameFileNever(newPathExists, oldInode, oldInodeIndex, newInodeIndex) == FALSE
\* "both are hard links to the same file; do nothing"
sameFile(newPathExists, oldInode, oldInodeIndex, newInodeIndex) ==
    newPathExists /\ oldInode.type = "REG" /\ oldInodeIndex = newInodeIndex

renameChecked(x, o, n, old, new, newPathExists, oldInode, newInode, oldName, newName, mode) ==
    IF renameCheck(newPathExists, oldInode, newInode, mode) # "OK"
    THEN SetR(x, renameCheck(newPathExists, oldInode, newInode, mode))
    ELSE IF sameFile(newPathExists, oldInode, old.dirent.inodeIndex, new.dirent.inodeIndex)
    THEN SetR(x, "OK")
    ELSE IF mode = "Exchange" THEN renameExchange(x, o, n, old, new)
    ELSE renameMove(x, o, n, old, new, newPathExists, oldName, newName)

renameInodes(x, o, n, old, new, newPathExists, oldName, newName, mode) ==
    Bind(inodeRead(x, old.dirent.inodeIndex),
         LAMBDA a :
            IF newPathExists
            THEN Bind(inodeRead(a, new.dirent.inodeIndex),
                      LAMBDA b : renameChecked(b, o, n, old, new, TRUE, a.out, b.out,
                                               oldName, newName, mode))
            ELSE renameChecked(a, o, n, old, new, FALSE, a.out, InodeDefault,
                               oldName, newName, mode))

renameWithBoth(x, o, n, oldName, newName, mode) ==
    IF x.hm[n].inode.type # "DIR" THEN SetR(x, "ENOTDIR")
    ELSE Bind(findDirent(x, o, oldName),
              LAMBDA a :
                 Then(findDirent(a, n, newName),
                      LAMBDA b :
                         IF Ok(b) \/ b.r = "ENOENT"
                         THEN renameInodes(b, o, n, a.out, b.out, Ok(b),
                                           oldName, newName, mode)
                         ELSE b))

\* from the old parent's handle on; out is the new parent's handle, or
\* InvalidIndex when there is none
renameWithOld(x, o, oldPath, newPath, mode) ==
    IF x.hm[o].inode.type # "DIR"
    THEN [x EXCEPT !.r = "ENOTDIR", !.out = InvalidIndex]
    ELSE Then(findInode(x, Front(newPath)),
              LAMBDA z :
                 IF ~Ok(z) THEN SetOut(z, InvalidIndex)
                 ELSE IF z.out = o
                 THEN SetOut(renameWithBoth(z, o, o, Last(oldPath), Last(newPath), mode), o)
                 ELSE Then(getHandle(z, Front(newPath)),
                           LAMBDA g :
                              IF Ok(g)
                              THEN SetOut(renameWithBoth(g, o, g.out, Last(oldPath),
                                                         Last(newPath), mode), g.out)
                              ELSE SetOut(g, InvalidIndex)))

\* the releases at the end of rename; their results are only logged
renameRelease(v, o) ==
    Then(v, LAMBDA q :
               Then(releaseHandle(q, o),
                    LAMBDA u :
                       IF q.out # InvalidIndex /\ q.out # o
                       THEN SetR(releaseHandle(u, q.out), q.r)
                       ELSE SetR(u, q.r)))

rename(x, oldPath, newPath, mode) ==
    Bind(getHandle(x, Front(oldPath)),
         LAMBDA y : renameRelease(renameWithOld(y, y.out, oldPath, newPath, mode), y.out))

\* SixFS::chmod, chown, utimens: handle is InvalidIndex for a null Handle*
chmod(x, handle, path, mode) ==
    IF handle # InvalidIndex THEN Hchmod(x, handle, mode)
    ELSE Bind(getHandle(x, path),
              LAMBDA y : releaseAfter(Hchmod(y, y.out, mode), y.out))

chown(x, handle, path) ==
    IF handle # InvalidIndex THEN Hchown(x, handle)
    ELSE Bind(getHandle(x, path),
              LAMBDA y : releaseAfter(Hchown(y, y.out), y.out))

utimens(x, handle, path, updateAtime, atime, updateMtime, mtime, updateCtime, ctime) ==
    IF handle # InvalidIndex
    THEN Hutimens(x, handle, updateAtime, atime, updateMtime, mtime, updateCtime, ctime)
    ELSE Bind(getHandle(x, path),
              LAMBDA y : releaseAfter(Hutimens(y, y.out, updateAtime, atime, updateMtime,
                                               mtime, updateCtime, ctime), y.out))

\* SixFS::truncate called with a Handle* (ftruncate); with a null Handle* the
\* code reads handle->inode() through the null pointer
truncate(x, handle, length) ==
    IF x.hm[handle].inode.type # "REG" THEN SetR(x, "EINVAL")
    ELSE Htruncate(x, handle, length)

\* SixFS::open: out is the handle, InvalidIndex when the call fails
open(x, path, readOnly, trunc, append) ==
    Then(getHandle(x, path),
         LAMBDA y :
            IF ~Ok(y) THEN SetOut(y, InvalidIndex)
            ELSE Then(Hopen(y, y.out, readOnly, trunc, append),
                      LAMBDA z :
                         IF Ok(z) THEN SetOut(z, y.out)
                         ELSE [releaseHandle(z, y.out) EXCEPT !.r = z.r,
                                                             !.out = InvalidIndex]))

close(x, handle) == releaseHandle(x, handle)

\* SixFS::openDir: out is the handle, InvalidIndex when the call fails
openDir(x, path) ==
    Then(getHandle(x, path),
         LAMBDA y :
            IF ~Ok(y) THEN SetOut(y, InvalidIndex)
            ELSE Then(HopenDir(y, y.out),
                      LAMBDA z :
                         IF Ok(z) THEN SetOut(z, y.out)
                         ELSE [releaseHandle(z, y.out) EXCEPT !.r = z.r,
                                                             !.out = InvalidIndex]))

closeDir(x, handle) == releaseHandle(x, handle)

read(x, handle, offset, count) == Hread(x, handle, offset, count)

write(x, handle, offset, buf) == Hwrite(x, handle, offset, buf)

-----------------------------------------------------------------------------
(* The world after SixFS::mount on an empty directory, before the root     *)
(* inode is created: three empty data containers, three one-chunk bitmaps. *)

NoFaults == [n |-> 0, bad |-> {}]

WorldInitial ==
    [map |-> [sp \in Spaces |-> MapInitial],
     dat |-> [sp \in Spaces |-> <<>>],
     cis |-> [sp \in Spaces |-> 0],
     hm  |-> [k \in HandleKeys |-> NoHandle],
     freedInUse |-> FALSE,
     em  |-> "None",
     max |-> 0,
     now |-> 0,
     io  |-> NoFaults,
     r   |-> "OK",
     out |-> 0]

\* what stays of the world when a call has returned
Settle(x) == [x EXCEPT !.io = NoFaults, !.r = "OK", !.out = 0]
Result(op, x) == [op |-> op, r |-> x.r, out |-> x.out]
Idle == [op |-> "none", r |-> "OK", out |-> 0]

-----------------------------------------------------------------------------
(* SpecMap: one Map (the block bitmap) driven through its public methods.  *)

MaxMapIndex == 5

\* a call returns: its result is noted and the world is left settled
Return(op, x) ==
    /\ w' = Settle(x)
    /\ ret' = Result(op, x)

MapCallSetOne(i) ==
    /\ Return("setOne", MapSetOne(w, "block", i))
    /\ UNCHANGED <<pc, held, ghost>>

MapCallSetZero(i) ==
    /\ Return("setZero", MapSetZero(w, "block", i))
    /\ UNCHANGED <<pc, held, ghost>>

MapCallGet(i) ==
    /\ Return("get", MapGet(w, "block", i))
    /\ UNCHANGED <<pc, held, ghost>>

MapCallFirstZero ==
    /\ w.map["block"].cand <= MaxMapIndex
    /\ Return("firstZero", MapFirstZero(w, "block"))
    /\ UNCHANGED <<pc, held, ghost>>

MapCallSync ==
    /\ Return("sync", MapSync(w, "block"))
    /\ UNCHANGED <<pc, held, ghost>>

InitMap ==
    /\ w = WorldInitial
    /\ ret = Idle
    /\ pc = <<>>
    /\ held = <<>>
    /\ ghost = <<>>

NextMap ==
    \/ \E i \in 0..MaxMapIndex : MapCallSetOne(i)
    \/ \E i \in 0..MaxMapIndex : MapCallSetZero(i)
    \/ \E i \in 0..MaxMapIndex : MapCallGet(i)
    \/ MapCallFirstZero
    \/ MapCallSync

SpecMap == InitMap /\ [][NextMap]_vars

\* the indices whose bit is zero, as far as the model looks
MapZeroes(m) == {i \in 0..(MaxMapIndex + BitsPerChunk + 1) : ~MapBit(m, i)}

\* C10: firstZero returns the smallest index whose bit is zero, and the
\* firstZeroCandidate hint never lies above the smallest zero index.
C10_FirstZeroIsSmallest ==
    /\ (ret.op = "firstZero" /\ ret.r = "OK")
          => ret.out = Min(MapZeroes(w.map["block"]))
    /\ w.map["block"].cand <= Min(MapZeroes(w.map["block"]))

-----------------------------------------------------------------------------
(* SpecChunk: threads calling the public methods of one ChunkManager (the  *)
(* block space) concurrently.  A method locks _rwMutex, runs its body and  *)
(* releases the mutex when it returns.  The body of add is two steps,      *)
(* so that a missing lock would let another thread in between.             *)

NThreads == 2
MaxChunks == 3

Threads == 1..NThreads

\* the mode in which a ChunkManager method locks _rwMutex
cmLockModeAllShared(op) == "shared"
cmLockMode(op) == IF op \in {"add", "remove", "sync"} THEN "exclusive" ELSE "shared"

CmIdle == [op |-> "none", st |-> "idle", arg |-> 0]

CmHolding(t) == pc[t].st \in {"body", "body2"}

\* _rwMutex can be locked in the mode of method op by thread t
CmCanLock(t, op) ==
    IF cmLockMode(op) = "exclusive"
    THEN \A u \in Threads \ {t} : ~CmHolding(u)
    ELSE \A u \in Threads \ {t} : CmHolding(u) => cmLockMode(pc[u].op) = "shared"

CmBuf(t) == [i \in 1..BlockSize |-> 1]

CmPending(op) == {t \in Threads : pc[t].op = op}

\* a thread calls a method and gets past the lock at its top; remove is
\* called for a chunk that is live and that no other thread is removing
CmCall(t, op, arg) ==
    /\ pc[t].st = "idle"
    /\ op = "add" => (arg = 0 /\ Cardinality(ghost.live) + Cardinality(CmPending("add")) < MaxChunks)
    /\ op = "remove" => (arg \in ghost.live /\ \A u \in CmPending("remove") : pc[u].arg # arg)
    /\ op = "sync" => arg = 0
    /\ CmCanLock(t, op)
    /\ pc' = [pc EXCEPT ![t] = [op |-> op, st |-> "body", arg |-> arg]]
    /\ UNCHANGED <<w, ret, held, ghost>>

CmReturn(t, x) ==
    /\ Return(pc[t].op, x)
    /\ pc' = [pc EXCEPT ![t] = CmIdle]

\* the first step of add leaves the index it found in the thread's hands
CmAddIndexDone(t, x) ==
    IF Ok(x)
    THEN /\ w' = Settle(x)
         /\ pc' = [pc EXCEPT ![t].st = "body2", ![t].arg = x.out]
         /\ UNCHANGED ret
    ELSE CmReturn(t, x)

CmAddIndex(t) ==
    /\ pc[t].op = "add" /\ pc[t].st = "body"
    /\ CmAddIndexDone(t, cmAddIndex(w, "block"))
    /\ UNCHANGED <<held, ghost>>

CmAddStore(t) ==
    /\ pc[t].op = "add" /\ pc[t].st = "body2"
    /\ CmReturn(t, cmAddStore(w, "block", pc[t].arg, CmBuf(t)))
    /\ ghost' = IF ret'.r = "OK"
                THEN [ghost EXCEPT !.live = @ \cup {ret'.out},
                                   !.dup = @ \/ ret'.out \in ghost.live]
                ELSE ghost
    /\ UNCHANGED held

CmRemove(t) ==
    /\ pc[t].op = "remove" /\ pc[t].st = "body"
    /\ CmReturn(t, cmRemove(w, "block", pc[t].arg))
    /\ ghost' = IF ret'.r = "OK" THEN [ghost EXCEPT !.live = @ \ {pc[t].arg}] ELSE ghost
    /\ UNCHANGED held

CmRead(t) ==
    /\ pc[t].op = "read" /\ pc[t].st = "body"
    /\ CmReturn(t, cmRead(w, "block", pc[t].arg))
    /\ UNCHANGED <<held, ghost>>

CmWrite(t) ==
    /\ pc[t].op = "write" /\ pc[t].st = "body"
    /\ CmReturn(t, cmWrite(w, "block", pc[t].arg, CmBuf(t)))
    /\ UNCHANGED <<held, ghost>>

CmSync(t) ==
    /\ pc[t].op = "sync" /\ pc[t].st = "body"
    /\ CmReturn(t, cmSync(w, "block"))
    /\ UNCHANGED <<held, ghost>>

InitChunk ==
    /\ w = WorldInitial
    /\ ret = Idle
    /\ pc = [t \in Threads |-> CmIdle]
    /\ held = <<>>
    /\ ghost = [live |-> {}, dup |-> FALSE]

NextChunk ==
    \E t \in Threads :
        \/ \E op \in {"add", "sync"} : CmCall(t, op, 0)
        \/ \E op \in {"remove", "read", "write"} : \E i \in 0..(MaxChunks - 1) : CmCall(t, op, i)
        \/ CmAddIndex(t)
        \/ CmAddStore(t)
        \/ CmRemove(t)
        \/ CmRead(t)
        \/ CmWrite(t)
        \/ CmSync(t)

SpecChunk == InitChunk /\ [][NextChunk]_vars

CmWriterInside == \E t \in Threads : CmHolding(t) /\ pc[t].op \in {"add", "remove", "sync"}

\* C9: whenever no add or remove is under way, bit i of the bitmap is 1
\* exactly when index i was returned by a successful add and has not been
\* removed since, and no add returned an index that was live.
C9_BitmapMatchesLive ==
    /\ ~ghost.dup
    /\ ~CmWriterInside =>
          \A i \in 0..(MaxChunks + BitsPerChunk) :
              MapBit(w.map["block"], i) <=> i \in ghost.live

\* index 0 was given out again after its removal while chunks 1 and 2 are
\* live, and a reader is inside a method
C9_Witness ==
    /\ ghost.live = {0, 1, 2}
    /\ ret.op = "add" /\ ret.r = "OK" /\ ret.out = 0
    /\ \E t \in Threads : pc[t].op = "read" /\ CmHolding(t)

-----------------------------------------------------------------------------
(* SpecFS: the path operations of SixFS on a freshly mounted file system.  *)
(* Every operation holds the structure lock from its first to its last     *)
(* statement, so each call is one step.                                    *)

\* the names of directory entries; their order is the order of strcmp
Names == {1, 2}
MaxDepth == 2
Paths == {p \in UNION {[1..d -> Names] : d \in 1..MaxDepth} : TRUE}

\* the indices below Reach are looked at when bitmaps are compared
Reach == 12
Allocated(x, sp) == {i \in 0..Reach : MapBit(x.map[sp], i)}

\* the calls of a run are counted in ghost; a run makes at most MaxCalls
MaxCalls == 4
FsCanCall == ghost < MaxCalls
FsCanCreate == FsCanCall /\ Cardinality(Allocated(w, "inode")) < MaxInodes

\* a call returns to its caller and leaves the world settled
FsReturn(x) ==
    /\ w' = Settle(x)
    /\ ghost' = ghost + 1
    /\ UNCHANGED <<ret, pc, held>>

FsMkdir(path) == FsCanCreate /\ FsReturn(mkdir(w, path, 0))

FsMknod(path) == FsCanCreate /\ FsReturn(mknod(w, path, 0))

FsSymlink(path) == FsCanCreate /\ FsReturn(symlink(w, <<1>>, path))

FsLink(oldPath, newPath) == FsCanCall /\ FsReturn(link(w, oldPath, newPath))

FsRmdir(path) == FsCanCall /\ FsReturn(rmdir(w, path))

FsUnlink(path) == FsCanCall /\ FsReturn(unlink(w, path))

RenameModes == {"Normal", "Noreplace", "Exchange"}

FsRename(oldPath, newPath, mode) ==
    FsCanCall /\ FsReturn(rename(w, oldPath, newPath, mode))

\* chmod by path (no Handle*)
FsChmod(path) == FsCanCall /\ FsReturn(chmod(w, InvalidIndex, path, 1))

\* some thread reports a failure it cannot recover from: emergency()
FsEmergency ==
    /\ FsCanCall
    /\ w.em = "None"
    /\ FsReturn(emergency(w, "SystemFailure"))

InitFS ==
    /\ w = Settle(createRootNode(WorldInitial))
    /\ ret = Idle
    /\ pc = <<>>
    /\ held = <<>>
    /\ ghost = 0

NextFS ==
    \/ \E path \in Paths : FsMkdir(path)
    \/ \E path \in Paths : FsMknod(path)
    \/ \E path \in Paths : FsSymlink(path)
    \/ \E oldPath \in Paths, newPath \in Paths : FsLink(oldPath, newPath)
    \/ \E path \in Paths : FsRmdir(path)
    \/ \E path \in Paths : FsUnlink(path)
    \/ \E oldPath \in Paths, newPath \in Paths, mode \in RenameModes :
          FsRename(oldPath, newPath, mode)
    \/ \E path \in Paths : FsChmod(path)
    \/ FsEmergency

SpecFS == InitFS /\ [][NextFS]_vars

-----------------------------------------------------------------------------
(* What a user of the file system can observe.                             *)

\* the inode a path resolves to, InvalidIndex when it resolves to none
Resolve(x, path) == findInode(x, path).out

InodeAt(x, path) == Then(findInode(x, path), LAMBDA y : inodeRead(y, y.out).out)

Exists(x, path) == Resolve(x, path) # InvalidIndex
IsDir(x, path) == Exists(x, path) /\ InodeAt(x, path).type = "DIR"

\* the dirent indices in slots 0..size-1 of the directory at path
DirSlots(x, path) ==
    Then(InodeAt(x, path),
         LAMBDA inode :
            [s \in 1..inode.size |->
                getSlot([x EXCEPT !.hm[StackHandle] = NewHandle(inode)],
                        StackHandle, s - 1).out])

\* the names read from slots 0..size-1 of the directory at path
DirNames(x, path) ==
    Then(DirSlots(x, path),
         LAMBDA slots : [s \in DOMAIN slots |-> direntRead(x, slots[s]).out.name])

AllPaths == Paths \cup {<<>>}

\* every name-to-inode mapping and every directory's slot sequence
Namespace(x) ==
    [path \in AllPaths |->
        [inodeIndex |-> Resolve(x, path),
         slots |-> IF IsDir(x, path) THEN DirSlots(x, path) ELSE <<>>]]

\* what is stored: the content and size of the three containers and the
\* three allocation bitmaps
Stored(x) ==
    [dat |-> x.dat, cis |-> x.cis, bits |-> [sp \in Spaces |-> Allocated(x, sp)]]

\* the call that led from x to y was refused with code and changed nothing
Refused(x, y, code) == y.r = code /\ Stored(y) = Stored(x)

\* C1: rmdir on a non-empty directory or on a non-directory, and unlink on a
\* directory, return the checker's error (ENOTEMPTY, ENOTDIR, EISDIR) and
\* leave everything stored as it was: the parent's inode and slots, the
\* target's inode and the three bitmaps.
C1_CheckerErrorChangesNothing ==
    \A path \in Paths :
       /\ (IsDir(w, path) /\ InodeAt(w, path).size > 0)
             => \A y \in {rmdir(w, path)} : Refused(w, y, "ENOTEMPTY")
       /\ (Exists(w, path) /\ ~IsDir(w, path))
             => \A y \in {rmdir(w, path)} : Refused(w, y, "ENOTDIR")
       /\ IsDir(w, path) => \A y \in {unlink(w, path)} : Refused(w, y, "EISDIR")

Ascending(names) == \A s \in 1..(Len(names) - 1) : names[s] < names[s + 1]

\* C3: in every reachable state the names read from slots 0..size-1 of every
\* directory are strictly ascending.
C3_DirectoryNamesAscending ==
    \A path \in AllPaths :
       IsDir(w, path) => \A names \in {DirNames(w, path)} : Ascending(names)

\* x is the world before and y the world after rename(a, b, Exchange)
Exchanged(x, y, a, b) ==
    /\ Resolve(y, a) = Resolve(x, b)
    /\ Resolve(y, b) = Resolve(x, a)

\* C4: after a successful rename(a, b, Exchange) path a resolves to the inode
\* that b resolved to before the call and b to the inode that a resolved to.
C4_ExchangeSwapsInodes ==
    \A a \in Paths, b \in Paths :
       \A y \in {rename(w, a, b, "Exchange")} : Ok(y) => Exchanged(w, y, a, b)

\* y is the world after the first of two rename(a, b, Exchange) from x
ExchangedBack(x, y, a, b) ==
    \A z \in {rename(Settle(y), a, b, "Exchange")} :
       Ok(z) /\ Namespace(z) = Namespace(x)

\* C5: rename(a, b, Exchange) twice in a row succeeds both times and leaves
\* every name-to-inode mapping and every directory's slot sequence as before.
C5_ExchangeTwiceRestores ==
    \A a \in Paths, b \in Paths :
       \A y \in {rename(w, a, b, "Exchange")} : Ok(y) => ExchangedBack(w, y, a, b)

\* the world x had the emergency latch not been set
Unlatched(x) == [x EXCEPT !.em = "None"]

\* the call that leads from x to y when the latch is set, and to z when it is
\* not: if it would go through without the latch, it is refused with it
ReadOnly(x, y, z) == \A u \in {y}, v \in {z} : Ok(v) => Refused(x, u, "EROFS")

\* C6: once the emergency latch is set, mkdir, mknod, unlink, rename and chmod
\* return EROFS and leave everything stored as it was.
C6_LatchedIsReadOnly ==
    w.em # "None" =>
       \A path \in Paths :
          /\ ReadOnly(w, mkdir(w, path, 0), mkdir(Unlatched(w), path, 0))
          /\ ReadOnly(w, mknod(w, path, 0), mknod(Unlatched(w), path, 0))
          /\ ReadOnly(w, unlink(w, path), unlink(Unlatched(w), path))
          /\ ReadOnly(w, chmod(w, InvalidIndex, path, 1),
                      chmod(Unlatched(w), InvalidIndex, path, 1))
          /\ \A newPath \in Paths :
                ReadOnly(w, rename(w, path, newPath, "Normal"),
                         rename(Unlatched(w), path, newPath, "Normal"))

-----------------------------------------------------------------------------
(* SpecFile: regular files and directories in the root directory, opened,  *)
(* written, read, truncated and closed while their names are unlinked,     *)
(* removed, renamed and linked.  held[k] counts the handles of inode k     *)
(* that open() or openDir() returned and that are not released yet.  The file system is mounted without a     *)
(* size limit or with the limit MaxSize.                                   *)

FilePaths == {<<name>> : name \in Names}

\* Base::_maxSize of a mount with a size limit, in bytes
MaxSize == 24
MaxOpens == 2
MaxFileCalls == 5

\* the offsets, byte counts and lengths of write and truncate
Offsets == {0, 3 * BlockSize}
Counts == {2 * BlockSize, 4 * BlockSize}
Lengths == {0, 1, 2 * BlockSize}

Inodes == 0..(MaxInodes - 1)
Opens == {k \in Inodes : held[k] > 0}

FileCanCall == ghost < MaxFileCalls

FileReturn(x) ==
    /\ w' = Settle(x)
    /\ ghost' = ghost + 1
    /\ UNCHANGED <<ret, pc>>

FileMknod(path) ==
    /\ FileCanCall
    /\ Cardinality(Allocated(w, "inode")) < MaxInodes
    /\ FileReturn(mknod(w, path, 0))
    /\ UNCHANGED held

\* the handle that open returned is held from now on
FileMkdir(path) ==
    /\ FileCanCall
    /\ Cardinality(Allocated(w, "inode")) < MaxInodes
    /\ FileReturn(mkdir(w, path, 0))
    /\ UNCHANGED held

FileOpened(x) ==
    \E y \in {x} :
       /\ FileReturn(y)
       /\ held' = IF Ok(y) THEN [held EXCEPT ![y.out] = @ + 1] ELSE held

FileOpen(path, trunc) ==
    /\ FileCanCall
    /\ Cardinality(Opens) < MaxOpens
    /\ FileOpened(open(w, path, FALSE, trunc, FALSE))

FileOpenDir(path) ==
    /\ FileCanCall
    /\ Cardinality(Opens) < MaxOpens
    /\ FileOpened(openDir(w, path))

FileClose(k) ==
    /\ FileCanCall
    /\ held[k] > 0
    /\ FileReturn(IF w.hm[k].inode.type = "DIR" THEN closeDir(w, k) ELSE close(w, k))
    /\ held' = [held EXCEPT ![k] = @ - 1]

\* read, write and ftruncate reach the file system for regular files only
FileRead(k) ==
    /\ FileCanCall
    /\ held[k] > 0
    /\ w.hm[k].inode.type = "REG"
    /\ FileReturn(read(w, k, 0, 4 * BlockSize))
    /\ UNCHANGED held

FileWrite(k, offset, count) ==
    /\ FileCanCall
    /\ held[k] > 0
    /\ w.hm[k].inode.type = "REG"
    /\ FileReturn(write(w, k, offset, [i \in 1..count |-> 1]))
    /\ UNCHANGED held

FileTruncate(k, length) ==
    /\ FileCanCall
    /\ held[k] > 0
    /\ w.hm[k].inode.type = "REG"
    /\ FileReturn(truncate(w, k, length))
    /\ UNCHANGED held

FileUnlink(path) ==
    /\ FileCanCall
    /\ FileReturn(unlink(w, path))
    /\ UNCHANGED held

FileRmdir(path) ==
    /\ FileCanCall
    /\ FileReturn(rmdir(w, path))
    /\ UNCHANGED held

FileRename(oldPath, newPath) ==
    /\ FileCanCall
    /\ FileReturn(rename(w, oldPath, newPath, "Normal"))
    /\ UNCHANGED held

FileLink(oldPath, newPath) ==
    /\ FileCanCall
    /\ FileReturn(link(w, oldPath, newPath))
    /\ UNCHANGED held

InitFile ==
    /\ \E max \in {0, MaxSize} :
          w = [Settle(createRootNode(WorldInitial)) EXCEPT !.max = max]
    /\ ret = Idle
    /\ pc = <<>>
    /\ held = [k \in Inodes |-> 0]
    /\ ghost = 0

NextFile ==
    \/ \E path \in FilePaths : FileMknod(path)
    \/ \E path \in FilePaths : FileMkdir(path)
    \/ \E path \in FilePaths : FileOpenDir(path)
    \/ \E path \in FilePaths, trunc \in BOOLEAN : FileOpen(path, trunc)
    \/ \E k \in Inodes : FileClose(k)
    \/ \E k \in Inodes : FileRead(k)
    \/ \E k \in Inodes, offset \in Offsets, count \in Counts : FileWrite(k, offset, count)
    \/ \E k \in Inodes, length \in Lengths : FileTruncate(k, length)
    \/ \E path \in FilePaths : FileUnlink(path)
    \/ \E path \in FilePaths : FileRmdir(path)
    \/ \E oldPath \in FilePaths, newPath \in FilePaths : FileRename(oldPath, newPath)
    \/ \E oldPath \in FilePaths, newPath \in FilePaths : FileLink(oldPath, newPath)

SpecFile == InitFile /\ [][NextFile]_vars

\* the blocks of a slot tree of the given depth below the block index: the
\* block itself and, for an indirection block, the trees below its entries
RECURSIVE TreeBlocks(_, _, _)
TreeBlocks(x, index, depth) ==
    IF index = InvalidIndex \/ ~Ok(blockRead(x, index)) THEN {}
    ELSE IF depth = 0 THEN {index}
    ELSE {index} \cup UNION {TreeBlocks(x, blockRead(x, index).out[j], depth - 1) : j \in 1..N}

\* every block of the file whose handle is k: data and indirection blocks
FileBlocks(x, k) ==
    UNION {TreeBlocks(x, x.hm[k].inode.slotTrees[tree + 1], tree) : tree \in 0..4}

\* the whole content of the file, read through the handle k
Content(x, k) == read(x, k, 0, x.hm[k].inode.size).out

\* the world after n more calls of close on the handle k
RECURSIVE Closes(_, _, _)
Closes(x, k, n) ==
    IF n = 0 THEN x
    ELSE Then(close(x, k), LAMBDA y : Closes(Settle(y), k, n - 1))

\* in y the file that the handle k had open in x is as it was in x
KeptOpen(x, y, k) ==
    /\ k \in Allocated(y, "inode")
    /\ FileBlocks(x, k) \subseteq Allocated(y, "block")
    /\ Content(y, k) = Content(x, k)

\* in y the inode and the blocks that the file of handle k had in x are free
Freed(x, y, k) ==
    /\ k \notin Allocated(y, "inode")
    /\ FileBlocks(x, k) \cap Allocated(y, "block") = {}

\* path is the only link of a regular file that is open with handle k
OpenSingleLink(k, path) ==
    /\ held[k] > 0
    /\ w.em = "None"
    /\ w.hm[k].inode.type = "REG"
    /\ w.hm[k].inode.nlink = 1
    /\ Resolve(w, path) = k

\* C2: unlink of the only link of a regular file that is open returns
\* success and leaves the inode, every block and the content read through
\* the handle as they were, also while all but the last handle are closed;
\* the close of the last handle frees the inode and all the blocks.
C2_UnlinkedOpenFileLivesUntilClose ==
    \A k \in Inodes, path \in FilePaths :
       OpenSingleLink(k, path) =>
          \A y \in {unlink(w, path)} :
             /\ Ok(y)
             /\ \A n \in 0..(held[k] - 1) :
                   \A z \in {Closes(Settle(y), k, n)} : KeptOpen(w, z, k)
             /\ \A z \in {Closes(Settle(y), k, held[k])} : Freed(w, z, k)

\* C7: an inode whose handle was got and is not released yet is allocated in
\* the inode bitmap, and no call has freed an inode while its handle was
\* referenced.
C7_HeldInodeStaysAllocated ==
    /\ \A k \in Inodes : held[k] > 0 => k \in Allocated(w, "inode")
    /\ ~w.freedInUse

\* the file of a held handle has lost its name and waits for the last release
C7_UnlinkedWhileHeld ==
    \E k \in Inodes : held[k] > 0 /\ w.hm[k].removeOnceUnused

\* C8: after every completed call the slot count of the handle of an open
\* regular file is the size of the file in blocks, rounded up.
C8_SlotCountMatchesSize ==
    \A k \in Inodes :
       (held[k] > 0 /\ w.hm[k].inode.type = "REG")
          => w.hm[k].slotCount = (w.hm[k].inode.size + BlockSize - 1) \div BlockSize


\* the bytes that the checked writes store: none of them is 0, the byte of a
\* hole, or 1, the byte that the calls of the specification write
Pattern(n) == [i \in 1..n |-> i + 1]

\* the offsets and byte counts of the checked writes: block-aligned and not,
\* inside a block and across blocks, inside the file and beyond its end
ProbeOffsets == {0, 1, 2 * BlockSize + 1}
ProbeCounts == {1, BlockSize + 1, 2 * BlockSize}

\* the handle k is held and is the handle of a regular file
OpenFile(k) == held[k] > 0 /\ w.hm[k].inode.type = "REG"

\* read(offset, n) in the world y returns n bytes and they are buf
ReadsBack(y, k, offset, buf) ==
    \A z \in {read(Settle(y), k, offset, Len(buf))} : Ok(z) /\ z.out = buf

\* C11: a write through an open handle that returns its count is followed by
\* a read of the same range that returns the count and the bytes written.
C11_WriteThenReadReturnsBuf ==
    \A k \in Inodes, offset \in ProbeOffsets, n \in ProbeCounts :
       OpenFile(k) =>
          \A y \in {write(w, k, offset, Pattern(n))} :
             Ok(y) => ReadsBack(y, k, offset, Pattern(n))

\* the write of buf through the handle k of the world y, whose file had
\* sizeBefore bytes, has stored buf at the end of the file
Appended(y, k, offset, buf, sizeBefore) ==
    \A z \in {write(y, k, offset, buf)} :
       Ok(z) => /\ z.hm[k].inode.size = sizeBefore + Len(buf)
                /\ read(Settle(z), k, sizeBefore, Len(buf)).out = buf

\* C12: after open with append = true, a write that succeeds stores its bytes
\* at the end of the file, whatever its offset is, and the size grows by the
\* count.
C12_AppendWritesAtEnd ==
    \A path \in FilePaths, offset \in ProbeOffsets, n \in ProbeCounts :
       \A y \in {open(w, path, FALSE, FALSE, TRUE)} :
          Ok(y) => Appended(Settle(y), y.out, offset, Pattern(n),
                            y.hm[y.out].inode.size)

\* the lengths that the checked truncate shortens a file to, and the lengths
\* and offsets that the file grows to afterwards
ShortLengths == {0, 1, BlockSize, BlockSize + 1, 2 * BlockSize + 1}
LongLengths == {BlockSize, BlockSize + 1, 2 * BlockSize, 3 * BlockSize, 3 * BlockSize + 1}

Zeroes(n) == [i \in 1..n |-> 0]

\* ceil(len / sizeof(Block))
Blocks(len) == (len + BlockSize - 1) \div BlockSize

\* in y the file of handle k has the size len and the slots of that size
Truncated(y, k, len) ==
    /\ y.hm[k].inode.size = len
    /\ y.hm[k].slotCount = Blocks(len)

\* in y the bytes of the file of handle k from offset from up to offset to,
\* as far as they are inside the file, read as zero
ZeroBetween(y, k, from, to) ==
    \A z \in {read(Settle(y), k, from, to - from)} :
       Ok(z) /\ z.out = Zeroes(Min({to, Max({from, y.hm[k].inode.size})}) - from)

\* the file of handle k in y, which was shortened to short, grows to long by
\* truncate, or by a write at the offset long
GrowsWithZeroes(y, k, short, long) ==
    /\ \A z \in {truncate(y, k, long)} :
          Ok(z) => Truncated(z, k, long) /\ ZeroBetween(z, k, short, long)
    /\ \A z \in {write(y, k, long, Pattern(1))} :
          Ok(z) => ZeroBetween(z, k, short, long)

\* C13: a file that is truncated to a shorter length has that size and the
\* slots of that size, and when it grows again, by truncate or by a write
\* beyond the end, the bytes between the shortened length and the new content
\* read as zero.
C13_TruncateHidesOldContent ==
    \A k \in Inodes, short \in ShortLengths, long \in LongLengths :
       (OpenFile(k) /\ short <= w.hm[k].inode.size /\ short < long) =>
          \A y \in {truncate(w, k, short)} :
             Ok(y) => /\ Truncated(y, k, short)
                      /\ GrowsWithZeroes(Settle(y), k, short, long)

\* the call write(offset, buf) through the handle k returns the error that
\* ended its loop, if one did
ReturnsLoopError(x, k, offset, buf) ==
    \A v \in {writeData(x, k, offset, buf)}, y \in {write(x, k, offset, buf)} :
       ~Ok(v) => y.r = v.r

\* C14: a write whose truncateNow or whose loop ends with an error, so that
\* not all of its bytes are stored, returns that error and not its count.
C14_PartialWriteReturnsError ==
    \A k \in Inodes, offset \in ProbeOffsets, n \in ProbeCounts :
       OpenFile(k) => ReturnsLoopError(w, k, offset, Pattern(n))

\* an inode without its three timestamps
Timeless(inode) == [inode EXCEPT !.atime = 0, !.mtime = 0, !.ctime = 0]

\* what the file system holds apart from timestamps: what every path
\* resolves to, its inode, the slot sequence of every directory, and the
\* three allocation bitmaps
Holds(x) ==
    [names |-> Namespace(x),
     inodes |-> [path \in AllPaths |->
                   IF Exists(x, path) THEN Timeless(InodeAt(x, path)) ELSE InodeDefault],
     bits |-> [sp \in Spaces |-> Allocated(x, sp)]]

\* the removal of the name that led from y to z succeeded and z holds what x
\* held before the name was created
Undone(x, z) == Ok(z) /\ Holds(z) = Holds(x)

\* C15: mkdir of a new name followed by rmdir of it, and symlink of a new name
\* followed by unlink of it, succeed and leave the parent's size, nlink and
\* slot sequence, every other inode and the inode, dirent and block bitmaps
\* as they were before the creation.
C15_CreateThenRemoveRestores ==
    \A path \in Paths :
       (~Exists(w, path) /\ Cardinality(Allocated(w, "inode")) < MaxInodes) =>
          /\ \A y \in {mkdir(w, path, 0)} :
                Ok(y) => \A z \in {rmdir(Settle(y), path)} : Undone(w, z)
          /\ \A y \in {symlink(w, <<1>>, path)} :
                Ok(y) => \A z \in {unlink(Settle(y), path)} : Undone(w, z)

\* the content of the file at path, read through a handle of its own
ContentAt(x, path) ==
    Then(InodeAt(x, path),
         LAMBDA inode :
            read([x EXCEPT !.hm[StackHandle] = NewHandle(inode)],
                 StackHandle, 0, inode.size).out)

\* in z the path leads to the inode it led to in x, the inode is allocated
\* and has the link count and the content it had in x
SameFile(x, z, path) ==
    /\ Resolve(z, path) = Resolve(x, path)
    /\ Resolve(z, path) \in Allocated(z, "inode")
    /\ InodeAt(z, path).nlink = InodeAt(x, path).nlink
    /\ ContentAt(z, path) = ContentAt(x, path)

\* C16: link(old, new) followed by unlink(new) succeeds and leaves old
\* resolving to the same inode, which is still allocated and has the same
\* link count and content as before the link.
C16_LinkThenUnlinkKeepsOld ==
    \A oldPath \in FilePaths, newPath \in FilePaths :
       Exists(w, oldPath) =>
          \A y \in {link(w, oldPath, newPath)} :
             Ok(y) => \A z \in {unlink(Settle(y), newPath)} :
                         Ok(z) /\ SameFile(w, z, oldPath)

\* the two paths are names of the same regular file
HardLinks(x, oldPath, newPath) ==
    /\ Exists(x, oldPath)
    /\ Resolve(x, oldPath) = Resolve(x, newPath)
    /\ InodeAt(x, oldPath).type = "REG"

\* the call that led from x to y succeeded and changed nothing that is stored
Untouched(x, y) == Ok(y) /\ Stored(y) = Stored(x)

\* C17: rename between two names of the same regular file, in the mode
\* Normal or Exchange, returns success and leaves the inodes, the dirents,
\* the directories' slots and the three bitmaps as they were.
C17_RenameOfHardLinksIsNoOp ==
    \A oldPath \in Paths, newPath \in Paths, mode \in {"Normal", "Exchange"} :
       HardLinks(w, oldPath, newPath) =>
          \A y \in {rename(w, oldPath, newPath, mode)} : Untouched(w, y)

\* a regular file has two different names, in different directories, and the
\* rename of one to the other has returned success
C17_HardLinksRenamed ==
    \E oldPath \in Paths, newPath \in Paths :
       /\ Front(oldPath) # Front(newPath)
       /\ HardLinks(w, oldPath, newPath)
       /\ InodeAt(w, oldPath).nlink = 2
       /\ Ok(rename(w, oldPath, newPath, "Normal"))

-----------------------------------------------------------------------------
(* SpecSize: threads that write to different open files call               *)
(* Base::blockAdd and Base::blockRemove at the same time.  SixFS::write    *)
(* takes no structure lock and every file has its own Handle mutex, so the *)
(* only lock the calls share is _rwMutex of the block ChunkManager, which  *)
(* entityAddRaw takes inside mgr->add, after checkWriteAction has read the *)
(* sizes.  pc[t] is where thread t is and held[t] the block of its file.   *)

NWriters == 6
Writers == 1..NWriters
MaxAdds == 7

\* Base::_maxSize of the mount: the empty file system and five blocks
SizeLimit == 14

\* entityAddRaw, line 81: the sizes are read and compared with _maxSize
SizeCheck(t) ==
    /\ pc[t] = "idle"
    /\ held[t] = InvalidIndex
    /\ ghost < MaxAdds
    /\ pc' = [pc EXCEPT ![t] = IF checkWriteAction(w, chunkSize("block")) = "OK"
                               THEN "add" ELSE "idle"]
    /\ ghost' = ghost + 1
    /\ UNCHANGED <<w, ret, held>>

\* entityAddRaw, line 83: mgr->add under _rwMutex
SizeAdd(t) ==
    /\ pc[t] = "add"
    /\ \E y \in {cmAdd(w, "block", BlockData)} :
          /\ w' = Settle(y)
          /\ held' = [held EXCEPT ![t] = IF Ok(y) THEN y.out ELSE InvalidIndex]
    /\ pc' = [pc EXCEPT ![t] = "idle"]
    /\ UNCHANGED <<ret, ghost>>

\* entityRemove: the block of the thread's file is removed (truncate)
SizeRemove(t) ==
    /\ pc[t] = "idle"
    /\ held[t] # InvalidIndex
    /\ ghost < MaxAdds
    /\ w' = Settle(blockRemove(w, held[t]))
    /\ held' = [held EXCEPT ![t] = InvalidIndex]
    /\ ghost' = ghost + 1
    /\ UNCHANGED <<ret, pc>>

InitSize ==
    /\ w = [Settle(createRootNode(WorldInitial)) EXCEPT !.max = SizeLimit]
    /\ ret = Idle
    /\ pc = [t \in Writers |-> "idle"]
    /\ held = [t \in Writers |-> InvalidIndex]
    /\ ghost = 0

NextSize ==
    \/ \E t \in Writers : SizeCheck(t)
    \/ \E t \in Writers : SizeAdd(t)
    \/ \E t \in Writers : SizeRemove(t)

SpecSize == InitSize /\ [][NextSize]_vars

\* C18: with a max-size, the summed size of the containers and their bitmaps
\* is at most the max-size in every state, whatever the interleaving of the
\* threads that allocate.
C18_SizeWithinLimit == w.max > 0 => storageSizeInBytes(w) <= w.max

-----------------------------------------------------------------------------
(* SpecLock: the mutexes.  Threads call open, close, write, unlink, mknod   *)
(* and chmod for the one name "/1" of the root directory; a call is the    *)
(* sequence of lock, unlock and handle map steps that the code runs, and   *)
(* pc[t] holds the steps thread t has still to run.  Consecutive calls of  *)
(* one ChunkManager in the same mode are one lock and unlock of its        *)
(* _rwMutex.  w.mx is the state of the mutexes, w.ref and w.rou are        *)
(* refCount and _removeOnceUnused of the Handle of each inode (refCount 0: *)
(* no Handle in _handleMap), w.target is the inode of "/1", w.alloc the    *)
(* allocated file inodes, w.fd[t] the handle thread t has open, and        *)
(* held[t] the mutexes thread t holds, in the order it locked them.        *)

NLockers == 3
Lockers == 1..NLockers
MaxLockCalls == 4

FileInodes == {1, 2}
LockInodes == {0} \cup FileInodes

Structure == <<"structure", 0>>
HandleMap == <<"handleMap", 0>>
HandleMutex(k) == <<"handle", k>>
RwMutex(sp) == <<sp, 0>>
Mutexes ==
    {Structure, HandleMap} \cup {HandleMutex(k) : k \in LockInodes}
        \cup {RwMutex(sp) : sp \in Spaces}

Free == [x |-> 0, s |-> {}]

Lock(m, x) == [a |-> "lock", m |-> m, x |-> x, k |-> 0, c |-> ""]
Unlock(m) == [a |-> "unlock", m |-> m, x |-> FALSE, k |-> 0, c |-> ""]
Do(a, k) == [a |-> a, m |-> Structure, x |-> FALSE, k |-> k, c |-> ""]
Find(c) == [a |-> "find", m |-> Structure, x |-> FALSE, k |-> 0, c |-> c]
\* the place where a call goes on after an error
Mark == Do("mark", 0)

\* a method of the ChunkManager of sp: _rwMutex is locked in the method's mode
cmOp(sp, op) == <<Lock(RwMutex(sp), cmLockMode(op) = "exclusive"), Unlock(RwMutex(sp))>>

\* Base::handleGet
handleGetSteps(k) == <<Lock(HandleMap, TRUE), Do("get", k), Unlock(HandleMap)>>

\* Base::handleRelease
handleReleaseSteps(k) == <<Lock(HandleMap, TRUE), Do("put", k), Unlock(HandleMap)>>

\* Handle::remove
removeSteps(k) == <<Lock(HandleMutex(k), TRUE), Do("remove", k), Unlock(HandleMutex(k))>>

\* Handle::removeNow of a regular file with one link
removeNowSteps == cmOp("inode", "remove") \o cmOp("block", "read") \o cmOp("block", "remove")

\* Handle::open
HopenSteps(k) ==
    <<Lock(HandleMutex(k), TRUE)>> \o cmOp("inode", "write") \o <<Unlock(HandleMutex(k))>>

\* SixFS::open after findInode: handleGet, Handle::open
openSteps(k) == handleGetSteps(k) \o HopenSteps(k) \o <<Do("opened", k)>>

\* Handle::chmod
HchmodSteps(k) ==
    <<Lock(HandleMutex(k), TRUE)>> \o cmOp("inode", "write") \o <<Unlock(HandleMutex(k))>>

\* SixFS::chmod by path after findInode
chmodSteps(k) == handleGetSteps(k) \o HchmodSteps(k) \o handleReleaseSteps(k)

\* Handle::write
HwriteSteps(k) ==
    <<Lock(HandleMutex(k), TRUE)>> \o cmOp("block", "read") \o cmOp("block", "add")
        \o cmOp("inode", "write") \o <<Unlock(HandleMutex(k))>>

rmdirentNoUnlock(p, k) ==
    <<Lock(HandleMutex(p), TRUE)>> \o cmOp("dirent", "read") \o handleGetSteps(k)
        \o cmOp("dirent", "remove") \o removeSteps(k) \o handleReleaseSteps(k)
        \o <<Do("gone", k)>> \o cmOp("inode", "write")
\* Handle::rmdirent of the directory p for the entry of inode k, from
\* lockExclusive on
rmdirentSteps(p, k) ==
    <<Lock(HandleMutex(p), TRUE)>> \o cmOp("dirent", "read") \o handleGetSteps(k)
        \o cmOp("dirent", "remove") \o removeSteps(k) \o handleReleaseSteps(k)
        \o <<Do("gone", k)>> \o cmOp("inode", "write") \o <<Unlock(HandleMutex(p))>>

\* Handle::mkdirent of the directory when the name is new
mkdirentSteps ==
    cmOp("inode", "add") \o cmOp("dirent", "add") \o <<Do("create", 0)>>
        \o cmOp("inode", "write")

\* what a call goes on with when findInode has found the inode k
Found(c, k) == IF c = "open" THEN openSteps(k) ELSE chmodSteps(k)

\* the steps without the marks at their front
RECURSIVE Norm(_)
Norm(steps) ==
    IF steps # <<>> /\ Head(steps).a = "mark" THEN Norm(Tail(steps)) ELSE steps

\* the steps behind the next mark
RECURSIVE SkipMark(_)
SkipMark(steps) ==
    IF steps = <<>> THEN <<>>
    ELSE IF Head(steps).a = "mark" THEN Norm(Tail(steps))
    ELSE SkipMark(Tail(steps))

LockIdle(t) == pc[t] = <<>>
LockCanCall(t) == LockIdle(t) /\ ghost < MaxLockCalls

\* thread t starts a call: these are its steps
LockCall(t, steps) ==
    /\ LockCanCall(t)
    /\ pc' = [pc EXCEPT ![t] = steps]
    /\ ghost' = ghost + 1
    /\ UNCHANGED <<w, ret, held>>

\* SixFS::open("/1")
LkOpen(t) ==
    /\ w.fd[t] = InvalidIndex
    /\ LockCall(t, <<Lock(Structure, TRUE)>> \o cmOp("inode", "read")
                      \o <<Find("open"), Mark, Unlock(Structure)>>)

\* SixFS::close of the handle the thread has open
LkClose(t) ==
    /\ LockCanCall(t)
    /\ w.fd[t] # InvalidIndex
    /\ pc' = [pc EXCEPT ![t] = <<Lock(Structure, TRUE)>> \o handleReleaseSteps(w.fd[t])
                                  \o <<Unlock(Structure)>>]
    /\ w' = [w EXCEPT !.fd[t] = InvalidIndex]
    /\ ghost' = ghost + 1
    /\ UNCHANGED <<ret, held>>

\* SixFS::write through the handle the thread has open
LkWrite(t) ==
    /\ w.fd[t] # InvalidIndex
    /\ LockCall(t, HwriteSteps(w.fd[t]))

\* SixFS::unlink("/1")
LkUnlink(t) ==
    LockCall(t, <<Lock(Structure, TRUE)>> \o handleGetSteps(0) \o <<Do("rmdirent", 0), Mark>>
                   \o handleReleaseSteps(0) \o <<Unlock(Structure)>>)

\* SixFS::mknod("/1")
LkMknod(t) ==
    /\ w.alloc # FileInodes
    /\ LockCall(t, <<Lock(Structure, TRUE)>> \o handleGetSteps(0)
                      \o <<Lock(HandleMutex(0), TRUE)>> \o cmOp("dirent", "read")
                      \o <<Do("mkdirent", 0), Mark, Unlock(HandleMutex(0))>>
                      \o handleReleaseSteps(0) \o <<Unlock(Structure)>>)

\* SixFS::chmod(nullptr, "/1", mode)
LkChmod(t) ==
    LockCall(t, <<Lock(Structure, FALSE)>> \o cmOp("inode", "read")
                   \o <<Find("chmod"), Mark, Unlock(Structure)>>)

\* thread t is at a step of the kind a
LockAt(t, a) == pc[t] # <<>> /\ Head(pc[t]).a = a

\* thread t goes on with steps
LockGoOn(t, steps) == pc' = [pc EXCEPT ![t] = Norm(steps)]

\* the mutex can be locked, exclusively or shared
Grantable(m, x) == w.mx[m].x = 0 /\ (x => w.mx[m].s = {})

\* lock() and lock_shared() return
LkLock(t) ==
    /\ LockAt(t, "lock")
    /\ Grantable(Head(pc[t]).m, Head(pc[t]).x)
    /\ w' = [w EXCEPT !.mx[Head(pc[t]).m] =
                IF Head(pc[t]).x THEN [@ EXCEPT !.x = t] ELSE [@ EXCEPT !.s = @ \cup {t}]]
    /\ held' = [held EXCEPT ![t] = Append(@, Head(pc[t]).m)]
    /\ LockGoOn(t, Tail(pc[t]))
    /\ UNCHANGED <<ret, ghost>>

\* unlock() and unlock_shared()
LkUnlock(t) ==
    /\ LockAt(t, "unlock")
    /\ w' = [w EXCEPT !.mx[Head(pc[t]).m] = [x |-> IF @.x = t THEN 0 ELSE @.x,
                                             s |-> @.s \ {t}]]
    /\ held' = [held EXCEPT ![t] = SelectSeq(@, LAMBDA m : m # Head(pc[t]).m)]
    /\ LockGoOn(t, Tail(pc[t]))
    /\ UNCHANGED <<ret, ghost>>

\* SixFS::recursiveFind: the name is looked up in the root directory
LkFind(t) ==
    /\ LockAt(t, "find")
    /\ LockGoOn(t, IF w.target = InvalidIndex THEN SkipMark(pc[t])
                   ELSE cmOp("dirent", "read") \o Found(Head(pc[t]).c, w.target)
                           \o Tail(pc[t]))
    /\ UNCHANGED <<w, ret, held, ghost>>

\* Base::handleGet under _handleMapMutex: an inode that has no Handle is read
LkGet(t) ==
    /\ LockAt(t, "get")
    /\ w' = [w EXCEPT !.ref[Head(pc[t]).k] = @ + 1]
    /\ LockGoOn(t, (IF w.ref[Head(pc[t]).k] = 0 THEN cmOp("inode", "read") ELSE <<>>)
                      \o Tail(pc[t]))
    /\ UNCHANGED <<ret, held, ghost>>

\* Base::handleRelease under _handleMapMutex
LkPut(t) ==
    /\ LockAt(t, "put")
    /\ w' = [w EXCEPT !.ref[Head(pc[t]).k] = @ - 1,
                      !.rou[Head(pc[t]).k] = @ /\ ~handleDead(w.ref[Head(pc[t]).k] - 1)]
    /\ LockGoOn(t, (IF handleDead(w.ref[Head(pc[t]).k] - 1) /\ w.rou[Head(pc[t]).k]
                    THEN removeSteps(Head(pc[t]).k) ELSE <<>>)
                      \o Tail(pc[t]))
    /\ UNCHANGED <<ret, held, ghost>>

\* Handle::remove under the Handle's mutex
LkRemove(t) ==
    /\ LockAt(t, "remove")
    /\ w' = IF removeWaits(w.ref[Head(pc[t]).k])
            THEN [w EXCEPT !.rou[Head(pc[t]).k] = TRUE]
            ELSE [w EXCEPT !.alloc = @ \ {Head(pc[t]).k}]
    /\ LockGoOn(t, (IF removeWaits(w.ref[Head(pc[t]).k]) THEN <<>> ELSE removeNowSteps)
                      \o Tail(pc[t]))
    /\ UNCHANGED <<ret, held, ghost>>

\* Handle::rmdirent: an empty directory returns ENOENT before it locks
LkRmdirent(t) ==
    /\ LockAt(t, "rmdirent")
    /\ LockGoOn(t, IF w.target = InvalidIndex THEN SkipMark(pc[t])
                   ELSE rmdirentSteps(0, w.target) \o Tail(pc[t]))
    /\ UNCHANGED <<w, ret, held, ghost>>

\* Handle::rmdirent: the entry is gone
LkGone(t) ==
    /\ LockAt(t, "gone")
    /\ w' = [w EXCEPT !.target = InvalidIndex]
    /\ LockGoOn(t, Tail(pc[t]))
    /\ UNCHANGED <<ret, held, ghost>>

\* Handle::mkdirent after findDirentNow: EEXIST, or the entry is made
LkMkdirent(t) ==
    /\ LockAt(t, "mkdirent")
    /\ LockGoOn(t, IF w.target # InvalidIndex THEN SkipMark(pc[t])
                   ELSE mkdirentSteps \o Tail(pc[t]))
    /\ UNCHANGED <<w, ret, held, ghost>>

\* Handle::mkdirent: the new inode has the first free index
LkCreate(t) ==
    /\ LockAt(t, "create")
    /\ w' = [w EXCEPT !.target = Min(FileInodes \ w.alloc),
                      !.alloc = @ \cup {Min(FileInodes \ w.alloc)}]
    /\ LockGoOn(t, Tail(pc[t]))
    /\ UNCHANGED <<ret, held, ghost>>

\* SixFS::open returns the handle
LkOpened(t) ==
    /\ LockAt(t, "opened")
    /\ w' = [w EXCEPT !.fd[t] = Head(pc[t]).k]
    /\ LockGoOn(t, Tail(pc[t]))
    /\ UNCHANGED <<ret, held, ghost>>

\* thread t runs its next step
LkStep(t) ==
    \/ LkLock(t)
    \/ LkUnlock(t)
    \/ LkFind(t)
    \/ LkGet(t)
    \/ LkPut(t)
    \/ LkRemove(t)
    \/ LkRmdirent(t)
    \/ LkGone(t)
    \/ LkMkdirent(t)
    \/ LkCreate(t)
    \/ LkOpened(t)

InitLock ==
    /\ w = [mx |-> [m \in Mutexes |-> Free],
            ref |-> [k \in LockInodes |-> 0],
            rou |-> [k \in LockInodes |-> FALSE],
            target |-> InvalidIndex,
            alloc |-> {},
            fd |-> [t \in Lockers |-> InvalidIndex]]
    /\ ret = Idle
    /\ pc = [t \in Lockers |-> <<>>]
    /\ held = [t \in Lockers |-> <<>>]
    /\ ghost = 0

NextLock ==
    \/ \E t \in Lockers : LkOpen(t)
    \/ \E t \in Lockers : LkClose(t)
    \/ \E t \in Lockers : LkWrite(t)
    \/ \E t \in Lockers : LkUnlink(t)
    \/ \E t \in Lockers : LkMknod(t)
    \/ \E t \in Lockers : LkChmod(t)
    \/ \E t \in Lockers : LkStep(t)

SpecLock == InitLock /\ [][NextLock]_vars

\* the scheduler runs every thread that can run: a step that stays possible
\* is taken
SpecLockFair == SpecLock /\ \A t \in Lockers : WF_vars(LkStep(t))

\* thread t holds a mutex of the kind later that it locked while it held a
\* mutex of the kind earlier
LockedAfter(t, earlier, later) ==
    \E i \in DOMAIN held[t], j \in DOMAIN held[t] :
       i < j /\ held[t][i][1] = earlier /\ held[t][j][1] = later

\* C19: no thread holds _handleMapMutex that it locked while it held a
\* Handle mutex, and none holds _structureMutex that it locked while it held
\* _handleMapMutex, a Handle mutex or a ChunkManager's _rwMutex.
C19_LockOrder ==
    \A t \in Lockers :
       /\ ~LockedAfter(t, "handle", "handleMap")
       /\ \A kind \in {"handleMap", "handle"} \cup Spaces :
             ~LockedAfter(t, kind, "structure")

\* C20: every call that a thread has started returns.
C20_EveryCallReturns == \A t \in Lockers : ~LockIdle(t) ~> LockIdle(t)

\* a thread in unlink, which holds _structureMutex and the mutex of the
\* directory's Handle, waits for the mutex of the file's Handle, which a
\* thread in write holds
C20_UnlinkWaitsForWriter ==
    \E t \in Lockers :
       /\ LockAt(t, "lock")
       /\ Head(pc[t]).m[1] = "handle"
       /\ ~Grantable(Head(pc[t]).m, TRUE)
       /\ held[t] = <<Structure, HandleMutex(0)>>

-----------------------------------------------------------------------------
(* SpecLatch: emergency() called by several threads.  emergencyType is a    *)
(* plain global; the test and the assignment of emergency() are two        *)
(* accesses with no lock around them.  w.em is emergencyType, held[t] the  *)
(* argument of the call of thread t and pc[t] the thread's position.       *)

NDetectors == 3
Detectors == 1..NDetectors
EmergencyTypes == {"Bug", "SystemFailure"}

\* a thread detects corruption and calls emergency(t): the message is logged
EmCall(t, type) ==
    /\ pc[t] = "idle"
    /\ pc' = [pc EXCEPT ![t] = "test"]
    /\ held' = [held EXCEPT ![t] = type]
    /\ UNCHANGED <<w, ret, ghost>>

\* if (emergencyType == EmergencyNone)
EmTest(t) ==
    /\ pc[t] = "test"
    /\ pc' = [pc EXCEPT ![t] = IF w.em = "None" THEN "set" ELSE "idle"]
    /\ UNCHANGED <<w, ret, held, ghost>>

\* emergencyType = t
EmSet(t) ==
    /\ pc[t] = "set"
    /\ w' = [w EXCEPT !.em = held[t]]
    /\ pc' = [pc EXCEPT ![t] = "idle"]
    /\ UNCHANGED <<ret, held, ghost>>

InitLatch ==
    /\ w = [em |-> "None"]
    /\ ret = Idle
    /\ pc = [t \in Detectors |-> "idle"]
    /\ held = [t \in Detectors |-> "Bug"]
    /\ ghost = 0

NextLatch ==
    \/ \E t \in Detectors, type \in EmergencyTypes : EmCall(t, type)
    \/ \E t \in Detectors : EmTest(t)
    \/ \E t \in Detectors : EmSet(t)

SpecLatch == InitLatch /\ [][NextLatch]_vars

\* C21: once emergencyType is set, no call of emergency() changes its value.
C21_LatchIsWriteOnce == [][w.em # "None" => w'.em = w.em]_vars

-----------------------------------------------------------------------------
(* SpecTime: one regular file "/1" and a clock that advances between the    *)
(* calls.  The file is made, opened, written, read and its mode changed    *)
(* (the set-user-ID bit included) through the handle.  held[k] counts the  *)
(* opens of inode k, ghost counts the calls.                               *)

MaxNow == 3
MaxTimeCalls == 4
TimePath == <<1>>
TimeOffsets == {0, BlockSize + 1}
TimeCounts == {1, BlockSize}

TimeCanCall == ghost < MaxTimeCalls

TimeReturn(x) ==
    /\ w' = Settle(x)
    /\ ghost' = ghost + 1
    /\ UNCHANGED <<ret, pc>>

\* the clock advances
TimeTick ==
    /\ w.now < MaxNow
    /\ w' = [w EXCEPT !.now = @ + 1]
    /\ UNCHANGED <<ret, pc, held, ghost>>

TimeMknod ==
    /\ TimeCanCall
    /\ ~Exists(w, TimePath)
    /\ TimeReturn(mknod(w, TimePath, 0))
    /\ UNCHANGED held

TimeOpen(readOnly) ==
    /\ TimeCanCall
    /\ Cardinality(Opens) < MaxOpens
    /\ \E y \in {open(w, TimePath, readOnly, FALSE, FALSE)} :
          /\ TimeReturn(y)
          /\ held' = IF Ok(y) THEN [held EXCEPT ![y.out] = @ + 1] ELSE held

TimeChmod(k, mode) ==
    /\ TimeCanCall
    /\ OpenFile(k)
    /\ TimeReturn(chmod(w, k, TimePath, mode))
    /\ UNCHANGED held

TimeWrite(k, offset, count) ==
    /\ TimeCanCall
    /\ OpenFile(k)
    /\ TimeReturn(write(w, k, offset, Pattern(count)))
    /\ UNCHANGED held

TimeRead(k) ==
    /\ TimeCanCall
    /\ OpenFile(k)
    /\ TimeReturn(read(w, k, 0, BlockSize))
    /\ UNCHANGED held

InitTime ==
    /\ w = Settle(createRootNode(WorldInitial))
    /\ ret = Idle
    /\ pc = <<>>
    /\ held = [k \in Inodes |-> 0]
    /\ ghost = 0

NextTime ==
    \/ TimeTick
    \/ TimeMknod
    \/ \E readOnly \in BOOLEAN : TimeOpen(readOnly)
    \/ \E k \in Inodes, mode \in {0, ModeSUID} : TimeChmod(k, mode)
    \/ \E k \in Inodes, offset \in TimeOffsets, count \in TimeCounts : TimeWrite(k, offset, count)
    \/ \E k \in Inodes : TimeRead(k)

SpecTime == InitTime /\ [][NextTime]_vars

\* the inode of the handle k, and the stored inode, satisfy P
BothInodes(y, k, P(_)) == P(y.hm[k].inode) /\ P(inodeRead(y, k).out)

\* the write of buf at offset that led from x to y left the inode as a write
\* has to: the size covers the bytes, the times are the clock's, the
\* set-user-ID bit is clear
Written(x, y, k, offset, buf) ==
    BothInodes(y, k, LAMBDA inode :
       /\ inode.size = Max({x.hm[k].inode.size, offset + Len(buf)})
       /\ inode.mtime = Time_now(x)
       /\ inode.ctime = Time_now(x)
       /\ ~inode.suid)

\* C22: every write that returns its count leaves the inode with the size
\* that covers the written bytes, with mtime and ctime at the current time and
\* without the set-user-ID and set-group-ID bits.
C22_WriteTouchesInode ==
    \A k \in Inodes :
       OpenFile(k) =>
          \A offset \in TimeOffsets, count \in TimeCounts :
             \A y \in {write(w, k, offset, Pattern(count))} :
                Ok(y) => Written(w, y, k, offset, Pattern(count))

\* the read that led from x to y renewed atime by the rule of updateATime
Relatime(x, y, k) ==
    BothInodes(y, k, LAMBDA inode :
       inode.atime = IF updateATime(x, k) THEN Time_now(x) ELSE x.hm[k].inode.atime)

\* C23: a read that succeeds sets atime to the current time when atime is
\* older than ctime, older than mtime or older than a day, and leaves atime
\* as it is otherwise.
C23_ReadRenewsAtime ==
    \A k \in Inodes :
       OpenFile(k) =>
          \A y \in {read(w, k, 0, BlockSize)} : Ok(y) => Relatime(w, y, k)

\* the removal that led from x to y freed the inode k and exactly the blocks
\* of its slot trees, each with a blockRemove that succeeded, and read no
\* block that was free: no call failed and the latch is not set
RemovedExactly(x, y, k) ==
    /\ Ok(y)
    /\ y.em = "None"
    /\ k \notin Allocated(y, "inode")
    /\ Allocated(y, "block") = Allocated(x, "block") \ FileBlocks(x, k)

\* C24: removeNow of a regular file with one link frees every data block and
\* every indirection block of the file once, reads no freed block and frees
\* no other block, whatever the handle has cached from reads and writes.
C24_RemoveNowFreesTheFile ==
    \A k \in Inodes :
       (OpenFile(k) /\ w.hm[k].inode.nlink = 1 /\ w.em = "None") =>
          \A y \in {removeNow(w, k)} : RemovedExactly(w, y, k)

\* the directory inode counts "." and ".." and one link for each entry
NlinkCountsEntries(inode) == inode.nlink = inode.size + 2

\* C25: every directory has nlink = size + 2, and the removal of a name that
\* is present is never answered with "no such entry".
C25_DirNlinkIsSizePlusTwo ==
    /\ \A path \in AllPaths :
          IsDir(w, path) => NlinkCountsEntries(InodeAt(w, path))
    /\ \A path \in Paths :
          Exists(w, path) =>
             \A y \in {IF IsDir(w, path) THEN rmdir(w, path) ELSE unlink(w, path)} :
                y.r # "ENOENT"

\* the allocated dirents that reference the inode k
DirentsOf(x, k) ==
    {i \in Allocated(x, "dirent") : x.dat["dirent"][i + 1].inodeIndex = k}

\* the inode k is an allocated regular file and no Handle of it is in
\* _handleMap
UncachedFile(x, k) ==
    /\ k \in Allocated(x, "inode")
    /\ ~x.hm[k].live
    /\ x.dat["inode"][k + 1].type = "REG"

\* C26: a regular file's inode that has no handle in the handle cache has as
\* many links as there are dirents that reference it, and is free when there
\* is none.
C26_NlinkCountsDirents ==
    \A k \in Inodes :
       UncachedFile(w, k) =>
          /\ w.dat["inode"][k + 1].nlink = Cardinality(DirentsOf(w, k))
          /\ DirentsOf(w, k) # {}

-----------------------------------------------------------------------------
(* SpecSlots: the slot trees of one Handle, driven through getSlot,        *)
(* setSlot, insertSlot and removeSlot.  The handle is that of the regular  *)
(* file "/1"; the values put into the slots are indices that the slot code *)
(* only stores.  A call may meet a storage fault (the chosen storage call  *)
(* fails) or, under a size limit, the refusal of a block.  held is the     *)
(* flat array the slots stand for, as far as every call so far succeeded;  *)
(* pc is "failed" after the first call that returned an error; ghost       *)
(* counts the calls that were given a fault or came after a failure.       *)

SlotHandle == 1
MaxSlots == 5
SlotValues == {InvalidIndex, 7}
MaxFaultAt == 4
MaxTroubledCalls == 2
SlotSizeLimit == 18

SlotFaults == {{}} \cup {{n} : n \in 1..MaxFaultAt}

SlotCount == w.hm[SlotHandle].slotCount

\* the world in which the storage calls of bad fail in the next call
WithFaults(bad) == [w EXCEPT !.io.bad = bad]

\* the call is given a fault or comes after a call that failed
Troubled(bad) == bad # {} \/ pc = "failed"

SlotCanFail(bad) == Troubled(bad) => ghost < MaxTroubledCalls

\* the call returned with the world y; flat is the array after the call
SlotReturn(y, bad, flat) ==
    /\ w' = Settle(y)
    /\ held' = IF Ok(y) /\ pc = "ok" THEN flat ELSE held
    /\ pc' = IF Ok(y) THEN pc ELSE "failed"
    /\ ghost' = IF Troubled(bad) THEN ghost + 1 ELSE ghost
    /\ UNCHANGED ret

SlotGet(slot, bad) ==
    /\ SlotCanFail(bad)
    /\ slot < SlotCount
    /\ SlotReturn(getSlot(WithFaults(bad), SlotHandle, slot), bad, held)

SlotSet(slot, index, bad) ==
    /\ SlotCanFail(bad)
    /\ slot < SlotCount
    /\ SlotReturn(setSlot(WithFaults(bad), SlotHandle, slot, index), bad,
                  IF slot < Len(held) THEN [held EXCEPT ![slot + 1] = index] ELSE held)

SlotInsert(slot, index, bad) ==
    /\ SlotCanFail(bad)
    /\ slot <= SlotCount
    /\ SlotCount < MaxSlots
    /\ SlotReturn(insertSlot(WithFaults(bad), SlotHandle, slot, index), bad,
                  [i \in 1..(Len(held) + 1) |->
                      IF i <= slot THEN held[i]
                      ELSE IF i = slot + 1 THEN index
                      ELSE held[i - 1]])

SlotRemove(slot, bad) ==
    /\ SlotCanFail(bad)
    /\ slot < SlotCount
    /\ SlotReturn(removeSlot(WithFaults(bad), SlotHandle, slot, FALSE), bad,
                  [i \in 1..(Len(held) - 1) |->
                      IF i <= slot THEN held[i] ELSE held[i + 1]])

InitSlots ==
    /\ \E max \in {0, SlotSizeLimit} :
          w = [Settle(handleGet(Settle(mknod(Settle(createRootNode(WorldInitial)),
                                             <<1>>, 0)),
                                SlotHandle))
               EXCEPT !.max = max]
    /\ ret = Idle
    /\ pc = "ok"
    /\ held = <<>>
    /\ ghost = 0

NextSlots ==
    \/ \E slot \in 0..(MaxSlots - 1), bad \in SlotFaults : SlotGet(slot, bad)
    \/ \E slot \in 0..(MaxSlots - 1), index \in SlotValues, bad \in SlotFaults :
          SlotSet(slot, index, bad)
    \/ \E slot \in 0..(MaxSlots - 1), index \in SlotValues, bad \in SlotFaults :
          SlotInsert(slot, index, bad)
    \/ \E slot \in 0..(MaxSlots - 1), bad \in SlotFaults : SlotRemove(slot, bad)

SpecSlots == InitSlots /\ [][NextSlots]_vars

ValidSlots == {slot \in 0..(Len(held) - 1) : held[slot + 1] # InvalidIndex}

\* the indirection blocks that the slots need: one per slot tree and per
\* path from the root of the tree down to the block that holds the slot
NeededBlocks ==
    UNION {{<<slotToTreeIndices(slot).tree, SubSeq(slotToTreeIndices(slot).ijkl, 1, l)>> :
               l \in 0..(slotToTreeIndices(slot).tree - 1)} : slot \in ValidSlots}

\* the indirection blocks that the slot trees of the handle's inode reach
SlotTreeBlocks(x, k) ==
    UNION {TreeBlocks(x, x.hm[k].inode.slotTrees[tree + 1], tree - 1) : tree \in 1..4}

CacheCoherent(x, k, l) ==
    x.hm[k].cbi[l + 1] # InvalidIndex =>
       /\ x.hm[k].cbi[l + 1] \in Allocated(x, "block")
       /\ \A y \in {blockRead(x, x.hm[k].cbi[l + 1])} :
             Ok(y) /\ y.out = x.hm[k].cb[l + 1]

\* C29: whenever cachedBlockIndices[l] of the handle is a valid index b,
\* block b is allocated and cachedBlocks[l] equals the content stored for
\* block b, after any sequence of getSlot, setSlot, insertSlot and removeSlot,
\* including calls that returned a block I/O or allocation error
C29_CacheCoherence == \A l \in 0..3 : CacheCoherent(w, SlotHandle, l)


-----------------------------------------------------------------------------
(* ChunkManager::add under a storage failure: the call is run from every   *)
(* state of SpecChunk in which no thread is inside a method, with one      *)
(* storage access failing.                                                 *)

MaxAddFaultAt == 6

AddFaults == {{n} : n \in 1..MaxAddFaultAt}

\* the search of the free index and its marking succeed, so a failure of
\* the call is a failure to grow the data storage or to write the chunk
AddMarks(x, sp) ==
    Ok(Bind(cmAddIndex(x, sp), LAMBDA x1 : MapSetOne(x1, sp, x1.out)))

\* the manager of world y is where it was in world x: the bit of the index
\* that the call had found is clear, chunksInStorage and the size of the
\* data storage are as before
AddRolledBack(x, y, sp) ==
    /\ ~MapBit(y.map[sp], y.out)
    /\ y.cis[sp] = x.cis[sp]
    /\ Len(y.dat[sp]) = Len(x.dat[sp])

AddFailsLate(x, y, sp) == AddMarks(x, sp) /\ ~Ok(y)

\* C30: if ChunkManager::add fails at growing the data storage or at writing
\* the chunk, and the rollback steps succeed, the bit that was allocated is
\* clear again and chunksInStorage and the storage size equal their values
\* before the call
C30_AddRollsBack ==
    (\A t \in Threads : pc[t].st = "idle") =>
       \A bad \in AddFaults :
          \A y \in {cmAdd([w EXCEPT !.io.bad = bad], "block", CmBuf(1))} :
             AddFailsLate([w EXCEPT !.io.bad = bad], y, "block")
                => AddRolledBack(w, y, "block")


\* two storage accesses of one call fail
AddFaultPairs == {{n, m} : n, m \in 1..MaxAddFaultAt} \ AddFaults

\* the rollback of a failed add left a dead chunk: the bit of the index is
\* still set or the data storage is still grown
AddRollbackFailed(x, y, sp) ==
    \/ MapBit(y.map[sp], y.out)
    \/ Len(y.dat[sp]) > Len(x.dat[sp])

\* C31: if the rollback inside a failed ChunkManager::add itself fails, the
\* emergency latch, not set before the call, is set and add returns the error of the step that failed
\* first
C31_FailedRollbackLatches ==
    (w.em = "None" /\ \A t \in Threads : pc[t].st = "idle") =>
       \A bad \in AddFaultPairs :
          \A y \in {cmAdd([w EXCEPT !.io.bad = bad], "block", CmBuf(1))} :
             (AddFailsLate([w EXCEPT !.io.bad = bad], y, "block")
                 /\ AddRollbackFailed(w, y, "block"))
                => (y.em # "None" /\ y.r = "EIO")


\* C32: after any sequence of successful add and remove calls chunksInStorage
\* is 0 when no chunk is live and otherwise one more than the highest live
\* index, and read and write of a live index are not rejected
C32_StorageEndsAtLastLive ==
    /\ w.cis["block"] = IF ghost.live = {} THEN 0 ELSE Max(ghost.live) + 1
    /\ \A i \in ghost.live :
          /\ \A y \in {cmRead(w, "block", i)} : Ok(y)
          /\ \A y \in {cmWrite(w, "block", i, CmBuf(1))} : Ok(y)

\* the last call was a successful remove of the highest live chunk, which
\* left chunk 0 as the only live chunk
C32_TailDropped ==
    /\ ghost.live = {0}
    /\ ret.op = "remove" /\ ret.r = "OK"
    /\ w.cis["block"] = 1
    /\ w.map["block"].cand = 1


\* C33: Map::sync removes trailing all-zero chunks but always keeps at least
\* one chunk: bitChunksInStorage >= 1 in every state reached by initialize,
\* firstZero, set, get and sync
C33_MapKeepsOneChunk == w.map["block"].n >= 1

\* C34: with storage I/O succeeding, currentBitChunkIndex < bitChunksInStorage
\* holds whenever sync is entered, and Map::sync does not latch the
\* bug-emergency
C34_SyncEntersInRange ==
    /\ w.map["block"].curIdx < w.map["block"].n
    /\ w.em = "None"


-----------------------------------------------------------------------------
(* Compound operations under a storage failure: the operation is run from  *)
(* the reachable states with one storage access failing.                   *)

MaxFaultAccess == 12

OneFault == {{n} : n \in 1..MaxFaultAccess}

\* the slots of all directories: the directory's inode, the position of the
\* slot and the dirent index in it
DirentRefs(x) ==
    UNION {{<<Resolve(x, path), s, DirSlots(x, path)[s]>> : s \in DOMAIN DirSlots(x, path)} :
              path \in {p \in AllPaths : IsDir(x, p)}}

NoSharedDirent(x) == \A a \in DirentRefs(x), b \in DirentRefs(x) : a[3] = b[3] => a = b

\* a failed call whose rollback did not fail
RolledBack(y) == ~Ok(y) /\ y.r # "ENOTRECOVERABLE" /\ y.em = "None"

\* C35: if rename in mode Normal or Noreplace fails after it has rewritten
\* the dirent's name, the rewrite being its first change, then after the
\* rollback old resolves to the same inode, new resolves as before, and no
\* dirent index is referenced from two directory slots
C35_RenameRollbackRestores ==
    w.em = "None" =>
       \A oldPath \in {p \in Paths : Exists(w, p)}, newPath \in Paths,
          mode \in RenameModes \ {"Exchange"}, bad \in OneFault :
          \A y \in {rename([w EXCEPT !.io.bad = bad], oldPath, newPath, mode)} :
             RolledBack(y) =>
                \A z \in {Settle(y)} :
                   /\ Resolve(z, oldPath) = Resolve(w, oldPath)
                   /\ Resolve(z, newPath) = Resolve(w, newPath)
                   /\ NoSharedDirent(z)


\* the handle of inode k is released n times
RECURSIVE AllClosed(_, _, _)
AllClosed(x, k, n) ==
    IF n = 0 THEN x ELSE AllClosed(Settle(close(x, k)), k, n - 1)

\* the stored inode k of world z is allocated and is, but for its times, the
\* stored inode k of world x
SameInode(x, z, k) ==
    /\ k \in Allocated(z, "inode")
    /\ \A a \in {inodeRead(x, k)}, b \in {inodeRead(z, k)} :
          Ok(a) /\ Ok(b) /\ Timeless(b.out) = Timeless(a.out)

\* C36: if link(old, new) of a regular file fails at inserting the new
\* dirent, then once no handle references the source inode its nlink is
\* back at the value before the call, and the inode is allocated with
\* unchanged content
C36_FailedLinkUndone ==
    w.em = "None" =>
       \A oldPath \in FilePaths, newPath \in FilePaths :
          (Exists(w, oldPath) /\ InodeAt(w, oldPath).type = "REG") =>
             \A y \in {link(w, oldPath, newPath)} :
                ~Ok(y) =>
                   \A z \in {AllClosed(Settle(y), Resolve(w, oldPath),
                                       held[Resolve(w, oldPath)])} :
                      /\ z.em = "None"
                      /\ SameInode(w, z, Resolve(w, oldPath))


\* an open regular file whose link to the name of another file is refused
C36_LinkToExistingName ==
    \E oldPath \in FilePaths, newPath \in FilePaths :
       /\ Exists(w, oldPath) /\ Exists(w, newPath)
       /\ Resolve(w, oldPath) # Resolve(w, newPath)
       /\ InodeAt(w, oldPath).type = "REG"
       /\ held[Resolve(w, oldPath)] > 0
       /\ w.em = "None"
       /\ link(w, oldPath, newPath).r = "EEXIST"


\* the bitmaps of inodes and dirents and the stored size and nlink of the
\* root directory, with the slot count of its handle when there is one
MkdirentFrame(x) ==
    [inodes |-> Allocated(x, "inode"),
     dirents |-> Allocated(x, "dirent"),
     size |-> inodeRead(x, 0).out.size,
     nlink |-> inodeRead(x, 0).out.nlink,
     slotCount |-> IF x.hm[0].live THEN x.hm[0].slotCount ELSE 0]

\* C37: if mkdirent fails for lack of space after it has allocated the new
\* inode or the new dirent, the inode and dirent bitmaps and the parent's
\* slotCount, size and nlink equal their values before the call
C37_MkdirentRollsBack ==
    w.em = "None" =>
       \A path \in FilePaths :
          \A y \in {mknod(w, path, 0)} :
             y.r = "ENOSPC" => MkdirentFrame(Settle(y)) = MkdirentFrame(w)


\* C38: rename(old, new) in mode Normal of a directory onto another,
\* non-empty directory fails with not-empty and leaves the stored state
\* unchanged, so the inode of the non-empty directory is not removed
C38_RenameOntoNonEmptyRefused ==
    w.em = "None" =>
       \A oldPath \in Paths, newPath \in Paths :
          (/\ IsDir(w, oldPath) /\ IsDir(w, newPath)
           /\ Resolve(w, oldPath) # Resolve(w, newPath)
           /\ InodeAt(w, newPath).size > 0)
             => \A y \in {rename(w, oldPath, newPath, "Normal")} :
                   /\ Refused(w, y, "ENOTEMPTY")
                   /\ Resolve(w, newPath) \in Allocated(y, "inode")


\* C39: rename(p, p, Normal) of an existing path onto itself returns success
\* and leaves the dirent, the inode and the parent directory unchanged, for
\* a directory or symlink just as for a regular file
C39_RenameOntoItselfIsNoOp ==
    w.em = "None" =>
       \A path \in Paths :
          Exists(w, path) =>
             \A y \in {rename(w, path, path, "Normal")} : Untouched(w, y)


-----------------------------------------------------------------------------
(* storage_file.cpp: StorageFile::readBytes and StorageFile::writeBytes.   *)
(* w holds the file, the caller's buffer and the locals index and size of  *)
(* the running call; held keeps the arguments and the file and the buffer  *)
(* as they were at the call. pread and pwrite transfer between 1 and size  *)
(* bytes, or fail.                                                         *)

FileBytes == 3

ByteValues == {0, 1}

Contents == [1..FileBytes -> ByteValues]

\* one pass of the loop of readBytes in which pread transfers r bytes: they
\* arrive at the start of buf
readBytes(x, r) ==
    [x EXCEPT !.buf = [i \in 1..FileBytes |->
                          IF i <= r THEN x.file[x.index + i] ELSE x.buf[i]],
              !.size = @ - r,
              !.index = @ + r]

\* one pass of the loop of writeBytes in which pwrite transfers r bytes: they
\* are taken from the start of buf
writeBytes(x, r) ==
    [x EXCEPT !.file = [i \in 1..FileBytes |->
                           IF x.index < i /\ i <= x.index + r
                           THEN x.buf[i - x.index] ELSE x.file[i]],
              !.size = @ - r,
              !.index = @ + r]

IoCall(op, index, size) ==
    /\ pc = "idle"
    /\ index + size <= FileBytes
    /\ w' = [w EXCEPT !.index = index, !.size = size]
    /\ ret' = [op |-> op, r |-> "OK", out |-> 0]
    /\ held' = [index |-> index, size |-> size, file |-> w.file, buf |-> w.buf]
    /\ pc' = "loop"
    /\ UNCHANGED ghost

IoTransfer(r) ==
    /\ pc = "loop"
    /\ r <= w.size
    /\ w' = IF ret.op = "read" THEN readBytes(w, r) ELSE writeBytes(w, r)
    /\ UNCHANGED <<ret, pc, held, ghost>>

\* pread or pwrite returns -1
IoError ==
    /\ pc = "loop"
    /\ w.size > 0
    /\ ret' = [ret EXCEPT !.r = "EIO"]
    /\ pc' = "done"
    /\ UNCHANGED <<w, held, ghost>>

IoReturn ==
    /\ pc = "loop"
    /\ w.size = 0
    /\ pc' = "done"
    /\ UNCHANGED <<w, ret, held, ghost>>

InitIo ==
    /\ \E file \in Contents, buf \in Contents :
          w = [file |-> file, buf |-> buf, index |-> 0, size |-> 0]
    /\ ret = Idle
    /\ pc = "idle"
    /\ held = <<>>
    /\ ghost = 0

NextIo ==
    \/ \E op \in {"read", "write"}, index \in 0..FileBytes, size \in 0..FileBytes :
          IoCall(op, index, size)
    \/ \E r \in 1..FileBytes : IoTransfer(r)
    \/ IoError
    \/ IoReturn

SpecIo == InitIo /\ [][NextIo]_vars

\* C40: readBytes and writeBytes return 0 only after the bytes of
\* [offset, offset+len) have been moved in order from or to buf[0..len),
\* whatever the pattern of partial transfers, with the result of one
\* complete transfer
C40_ShortTransfersTolerated ==
    (pc = "done" /\ ret.r = "OK") =>
       IF ret.op = "read"
       THEN /\ w.file = held.file
            /\ w.buf = [i \in 1..FileBytes |->
                           IF i <= held.size THEN held.file[held.index + i]
                           ELSE held.buf[i]]
       ELSE /\ w.buf = held.buf
            /\ w.file = [i \in 1..FileBytes |->
                            IF held.index < i /\ i <= held.index + held.size
                            THEN held.buf[i - held.index] ELSE held.file[i]]

=============================================================================
